---- MODULE Spec2Model ----
(***************************************************************************)
(* Model of the job store (job_api.py) and of the load store (load_api.py, *)
(* src/main.py holds the same code): key derivation, upsert               *)
(* reconciliation, ingest runs, shortlisting, queries and scoring; and the  *)
(* scoring loop of agent_runner.py, a client of the job store.             *)
(*                                                                         *)
(* Text is a sequence of one-character strings, so that strip(), joins and *)
(* comparisons are computed rather than assumed.  A nullable column or an  *)
(* optional payload field is NULL or Some(v).  Timestamps are integers     *)
(* read from a clock that never runs backwards (the code compares the ISO  *)
(* strings, whose order is the chronological order).                       *)
(***************************************************************************)
EXTENDS Integers, Sequences, FiniteSets, TLC

VARIABLES
    jobs,     \* table jobs:  job_key  -> row
    loads,    \* table loads: load_key -> row
    runs,     \* table runs of the store under check: its rows in insertion order
              \* (pages_fetched, result_count; the timestamp and the query
              \* parameters of a run are not modelled)
    clock,    \* the UTC clock read by utc_now() / utc_now_iso()
    last,     \* the last call made: its name, arguments and return value
    probe,    \* inputs and outputs of the pure functions under check
    agent,    \* the run of agent_runner.py against the job store: its position,
              \* the jobs its query returned, its loop index and its counters
    conns,    \* the connections of ingests that overlap on the load store: per
              \* connection its position, what its SELECT saw and the table
              \* with its uncommitted writes
    schema,   \* whether the tables of the store exist (init_db has run on it)
    ui,       \* the page of the load UI: its script variables, its interval
              \* timers and the runs of runFiltersAndLoad in flight
    app       \* the program serving the store: "job_api" or "load_api"

vars == <<jobs, loads, runs, clock, last, probe, agent, conns, schema, ui, app>>

\* ------------------------------------------------------------------ bounds
MaxTime == 2
MaxRuns == 2

\* ------------------------------------------------------------ basic values
\* agent_runner.py before main() runs.
AgentIdle == [pc |-> "idle"]

\* Two connections, neither in use by an ingest.
NoConns == <<[pc |-> "idle"], [pc |-> "idle"]>>

\* The script variables of the page when it has loaded: no run in flight, no
\* timer set, auto refresh off.  A timer handle of 0 is null.
UiLoaded ==
    [isRunning |-> FALSE, hasRunFilters |-> FALSE, seconds |-> 0,
     refreshTimer |-> 0, countdownTimer |-> 0, nextRefreshAt |-> FALSE,
     intervals |-> {}, running |-> <<>>]

NULL == [some |-> FALSE]
Some(v) == [some |-> TRUE, val |-> v]

\* Python truthiness of an optional text value: None and "" are falsy.
Truthy(x) == x.some /\ x.val # <<>>

\* x or "" for an optional text value.
OrEmpty(x) == IF Truthy(x) THEN x.val ELSE <<>>

RECURSIVE LStrip(_)
LStrip(s) == IF s # <<>> /\ Head(s) = " " THEN LStrip(Tail(s)) ELSE s

RECURSIVE RStrip(_)
RStrip(s) ==
    IF s # <<>> /\ s[Len(s)] = " " THEN RStrip(SubSeq(s, 1, Len(s) - 1)) ELSE s

\* str.strip()
Strip(s) == RStrip(LStrip(s))

\* ASCII upper-casing, as str.upper(), SQLite's UPPER() and LIKE fold it.
LowerLetters ==
    <<"a", "b", "c", "d", "e", "f", "g", "h", "i", "j", "k", "l", "m",
      "n", "o", "p", "q", "r", "s", "t", "u", "v", "w", "x", "y", "z">>

UpperLetters ==
    <<"A", "B", "C", "D", "E", "F", "G", "H", "I", "J", "K", "L", "M",
      "N", "O", "P", "Q", "R", "S", "T", "U", "V", "W", "X", "Y", "Z">>

UpperChar(c) ==
    IF \E i \in 1..26 : LowerLetters[i] = c
    THEN UpperLetters[CHOOSE i \in 1..26 : LowerLetters[i] = c]
    ELSE c

Upper(s) == [i \in 1..Len(s) |-> UpperChar(s[i])]

\* s LIKE '%pat%' with pat free of wildcards: a case-folded substring test.
Contains(s, pat) ==
    \E i \in 0..(Len(s) - Len(pat)) :
        Upper(SubSeq(s, i + 1, i + Len(pat))) = Upper(pat)

\* column LIKE '%pat%' on a nullable column: NULL never matches.
Like(col, pat) == col.some /\ Contains(col.val, pat)

\* ------------------------------------------------------------ state machine
STATE_NEW == "NEW"
STATE_DESC_READY == "DESC_READY"
STATE_READY == "READY"
STATE_SCORED == "SCORED"
STATE_APPLIED == "APPLIED"
STATE_IGNORED == "IGNORED"

AllStates ==
    {STATE_NEW, STATE_DESC_READY, STATE_READY, STATE_SCORED, STATE_APPLIED, STATE_IGNORED}

\* preserve_states of upsert_job, update_description and upsert_load
PreserveStates == {STATE_SCORED, STATE_APPLIED, STATE_IGNORED}

\* ------------------------------------------------------------- key deriver
\* hexdigest()[:24] of sha256: modelled as an injective tagging of the text
\* that is hashed, so two keys are equal exactly when the hashed texts are.
Digest(raw) == <<"sha256">> \o raw

\* stable_job_key
stable_job_key(job) ==
    IF Truthy(job.id)
    THEN <<"adzuna", ":">> \o job.id.val
    ELSE <<"urlhash", ":">> \o Digest(Strip(OrEmpty(job.redirect_url)))

\* ------------------------------------------------------------- job variant
\* Payloads the source fetcher returns.  id and redirect_url give two keys
\* (one by external id, one by URL hash; " u" and "u" hash alike after
\* strip()); description covers absent, blank, padded and plain text.
JobIds == {NULL, Some(<<"7">>)}
JobUrls == {Some(<<"u">>), Some(<<" ", "u">>)}
JobDescriptions == {NULL, Some(<<" ">>), Some(<<"d">>), Some(<<" ", "e">>)}
JobTitles == {Some(<<"x">>), Some(<<"y">>)}
JobLocations == {Some(<<"p">>)}

JobInputs ==
    { [id |-> i, redirect_url |-> u, description |-> d, title |-> t, location |-> l] :
        i \in JobIds, u \in {Some(<<"u">>)}, d \in JobDescriptions,
        t \in JobTitles, l \in JobLocations }
    \cup
    { [id |-> NULL, redirect_url |-> u, description |-> d, title |-> Some(<<"x">>),
       location |-> Some(<<"p">>)] : u \in JobUrls, d \in JobDescriptions }

EmptyTable == [k \in {} |-> NULL]

\* Put row r under key k.
Put(tbl, k, r) == [x \in DOMAIN tbl \cup {k} |-> IF x = k THEN r ELSE tbl[x]]

\* COALESCE(a, b)
Coalesce(a, b) == IF a.some THEN a ELSE b

\* desc_text of upsert_job: the stripped description, None when blank or absent.
ApiDescText(job) ==
    IF job.description.some /\ Strip(job.description.val) # <<>>
    THEN Some(Strip(job.description.val))
    ELSE NULL

\* The insert with the state NEW whatever the payload carries.
JobInsertRowAlwaysNew(job, now) ==
    [ title |-> job.title,
      location |-> job.location,
      redirect_url |-> job.redirect_url,
      description_text |-> ApiDescText(job),
      description_source |-> IF Truthy(ApiDescText(job)) THEN Some("api") ELSE NULL,
      state |-> STATE_NEW,
      first_seen_at |-> now,
      last_seen_at |-> now,
      shortlist_tag |-> NULL,
      shortlisted_at |-> NULL,
      match_score |-> NULL ]

\* The row upsert_job inserts for a key not yet stored.
JobInsertRow(job, now) ==
    LET desc_text == ApiDescText(job)
    IN [ title |-> job.title,
         location |-> job.location,
         redirect_url |-> job.redirect_url,
         description_text |-> desc_text,
         description_source |-> IF Truthy(desc_text) THEN Some("api") ELSE NULL,
         state |-> IF Truthy(desc_text) THEN STATE_DESC_READY ELSE STATE_NEW,
         first_seen_at |-> now,
         last_seen_at |-> now,
         shortlist_tag |-> NULL,
         shortlisted_at |-> NULL,
         match_score |-> NULL ]

\* final_state of upsert_job on an existing row.
JobUpsertState(existing_state, existing_desc, desc_text) ==
    LET promoted_state ==
            IF existing_state = STATE_NEW /\ ~existing_desc.some /\ Truthy(desc_text)
            THEN STATE_DESC_READY
            ELSE existing_state
    IN IF existing_state \in PreserveStates THEN existing_state ELSE promoted_state

\* final_desc with the incoming text winning over the stored one.
JobUpsertDescLastWriter(existing_desc, desc_text) ==
    IF Truthy(desc_text) THEN desc_text ELSE existing_desc

\* final_desc of upsert_job on an existing row.
JobUpsertDesc(existing_desc, desc_text) ==
    IF Truthy(existing_desc) THEN existing_desc ELSE desc_text

\* final_desc_source of upsert_job, before the COALESCE of the UPDATE.
JobUpsertDescSource(existing_desc, desc_text) ==
    IF Truthy(JobUpsertDesc(existing_desc, desc_text)) /\ ~Truthy(existing_desc)
       /\ Truthy(desc_text)
    THEN Some("api")
    ELSE NULL

\* The row upsert_job leaves for a key already stored (the UPDATE statement).
JobUpdateRow(row, job, now) ==
    LET desc_text == ApiDescText(job)
    IN [row EXCEPT
         !.title = job.title,
         !.location = job.location,
         !.redirect_url = job.redirect_url,
         !.last_seen_at = now,
         !.description_text = JobUpsertDesc(row.description_text, desc_text),
         !.description_source =
             Coalesce(row.description_source,
                      JobUpsertDescSource(row.description_text, desc_text)),
         !.state = JobUpsertState(row.state, row.description_text, desc_text)]

\* upsert_job: the table afterwards, and what it returns.
upsert_job(tbl, job, now) ==
    LET key == stable_job_key(job)
    IN IF key \notin DOMAIN tbl
       THEN [tbl |-> Put(tbl, key, JobInsertRow(job, now)), outcome |-> "inserted"]
       ELSE [tbl |-> Put(tbl, key, JobUpdateRow(tbl[key], job, now)),
             outcome |-> "updated"]

\* The upsert loop of run_scrape: the table after the batch, and the outcomes.
\* step[i] is the result of the i-th upsert.
UpsertJobs(tbl, batch, now) ==
    LET step[i \in 0..Len(batch)] ==
            IF i = 0
            THEN [tbl |-> tbl, outcome |-> "none"]
            ELSE upsert_job(step[i - 1].tbl, batch[i], now)
    IN [tbl |-> step[Len(batch)].tbl,
        outcomes |-> [i \in 1..Len(batch) |-> step[i].outcome]]

\* Number of entries of seq equal to v.
Count(seq, v) == Cardinality({i \in 1..Len(seq) : seq[i] = v})

\* The page the source returns for a request: nothing beyond its last page.
PageOf(feed, page) == IF page <= Len(feed) THEN feed[page] ELSE <<>>

\* The loop without its break: an empty page is counted and the next page
\* requested.
RECURSIVE FetchLoopPastEmpty(_, _, _)
FetchLoopPastEmpty(feed, page, max_pages) ==
    IF page > max_pages
    THEN [pages_fetched |-> 0, all_results |-> <<>>, calls |-> <<>>]
    ELSE LET rest == FetchLoopPastEmpty(feed, page + 1, max_pages)
         IN [pages_fetched |-> 1 + rest.pages_fetched,
             all_results |-> PageOf(feed, page) \o rest.all_results,
             calls |-> <<page>> \o rest.calls]

\* The fetch loop of run_scrape over the pages the source would return:
\* pages 1..max_pages in order, stopping after the first empty page.
\* calls lists the page numbers passed to fetch_page.
RECURSIVE FetchLoop(_, _, _)
FetchLoop(feed, page, max_pages) ==
    IF page > max_pages
    THEN [pages_fetched |-> 0, all_results |-> <<>>, calls |-> <<>>]
    ELSE LET results == PageOf(feed, page)
         IN IF results = <<>>
            THEN [pages_fetched |-> 1, all_results |-> <<>>, calls |-> <<page>>]
            ELSE LET rest == FetchLoop(feed, page + 1, max_pages)
                 IN [pages_fetched |-> 1 + rest.pages_fetched,
                     all_results |-> results \o rest.all_results,
                     calls |-> <<page>> \o rest.calls]

\* Sequences over S of length at most n.
SeqsUpTo(S, n) == UNION {[1..m -> S] : m \in 0..n}

\* The pages the source may return: at most two pages of one record each.
JobFeeds(Inputs) == SeqsUpTo({<<j>> : j \in Inputs}, 2)

\* The clock advances.
Tick ==
    /\ clock < MaxTime
    /\ clock' = clock + 1
    /\ last' = [op |-> "tick"]
    /\ UNCHANGED <<jobs, loads, runs, probe, agent, conns, schema, ui, app>>

\* What run_scrape of job_api.py leaves and returns, given the result f of the
\* fetch loop and the result u of the upsert loop: the table, the audit row,
\* the outcomes and the return value.
JobScrapeResult(f, u) ==
    [tbl |-> u.tbl,
     run |-> [pages_fetched |-> f.pages_fetched, result_count |-> Len(f.all_results)],
     outcomes |-> u.outcomes,
     ret |-> [pages_fetched |-> f.pages_fetched,
              total_returned |-> Len(f.all_results),
              inserted |-> Count(u.outcomes, "inserted"),
              updated |-> Count(u.outcomes, "updated")]]

\* The upsert loop of run_scrape applied to what the fetch loop returned.
JobScrapeUpserts(tbl, f, now) == JobScrapeResult(f, UpsertJobs(tbl, f.all_results, now))

\* run_scrape of job_api.py on table tbl: fetch the pages, upsert every record
\* with one `now`.
job_run_scrape(tbl, feed, max_pages, now) ==
    JobScrapeUpserts(tbl, FetchLoop(feed, 1, max_pages), now)

\* The effect of a run_scrape call with result r on the store.
JobScrapeDone(r, now) ==
    /\ jobs' = r.tbl
    /\ runs' = Append(runs, r.run)
    /\ clock' = now
    /\ last' = [op |-> "run_scrape", overwrite |-> FALSE,
                outcomes |-> r.outcomes, ret |-> r.ret]

JobRunScrape(Feeds, PageCaps) ==
    /\ Len(runs) < MaxRuns
    /\ \E feed \in Feeds, max_pages \in PageCaps, now \in clock..MaxTime :
         JobScrapeDone(job_run_scrape(jobs, feed, max_pages, now), now)
    /\ schema' = TRUE
    /\ UNCHANGED <<loads, probe, agent, conns, ui, app>>

\* run_scrape of job_api.py with its arguments and the fetch_page calls it
\* made kept in probe.
JobRunScrapePages(Feeds, PageCaps) ==
    /\ Len(runs) < MaxRuns
    /\ \E feed \in Feeds, max_pages \in PageCaps, now \in clock..MaxTime :
         /\ JobScrapeDone(job_run_scrape(jobs, feed, max_pages, now), now)
         /\ probe' = [feed |-> feed, max_pages |-> max_pages,
                      calls |-> FetchLoop(feed, 1, max_pages).calls]
    /\ schema' = TRUE
    /\ UNCHANGED <<loads, agent, conns, ui, app>>

\* fetch_page is called for page k: k is within max_pages and every page
\* before it returned results.
FetchReaches(feed, max_pages, k) ==
    /\ k \in 1..max_pages
    /\ \A j \in 1..(k - 1) : j <= Len(feed) /\ feed[j] # <<>>

\* all_results when fetch_page is called for page k: the results of the
\* pages before it.
RECURSIVE FetchedBefore(_, _)
FetchedBefore(feed, k) ==
    IF k <= 1 THEN <<>> ELSE FetchedBefore(feed, k - 1) \o feed[k - 1]

\* A failed ingest that still upserts what it fetched and logs the run.
job_run_scrape_raised_partial(tbl, run_rows, feed, k, now) ==
    [tbl |-> UpsertJobs(tbl, FetchedBefore(feed, k), now).tbl,
     runs |-> Append(run_rows, [pages_fetched |-> k - 1,
                                result_count |-> Len(FetchedBefore(feed, k))]),
     fetched |-> FetchedBefore(feed, k)]

\* run_scrape of job_api.py when fetch_page raises on page k: the exception
\* leaves the fetch loop and run_scrape before the upsert loop, the INSERT
\* INTO runs and the commit; fetched is what all_results held.
job_run_scrape_raised(tbl, run_rows, feed, k, now) ==
    [tbl |-> tbl, runs |-> run_rows, fetched |-> FetchedBefore(feed, k)]

\* scrape_endpoint catches ValueError only: the exception of fetch_page
\* reaches the caller.
JobRunScrapeFails(Feeds, PageCaps) ==
    /\ \E feed \in Feeds, max_pages \in PageCaps : \E k \in 1..max_pages :
         /\ FetchReaches(feed, max_pages, k)
         /\ jobs' = job_run_scrape_raised(jobs, runs, feed, k, clock).tbl
         /\ runs' = job_run_scrape_raised(jobs, runs, feed, k, clock).runs
         /\ last' = [op |-> "run_scrape_failed", raised |-> TRUE, page |-> k,
                     fetched |-> job_run_scrape_raised(jobs, runs, feed, k, clock).fetched]
    /\ schema' = TRUE
    /\ UNCHANGED <<loads, clock, probe, agent, conns, ui, app>>

DEFAULT_TAG == <<"D", "E", "F", "A", "U", "L", "T">>

\* tag.strip() or "DEFAULT"
NormTag(tag) == IF Strip(tag) # <<>> THEN Strip(tag) ELSE DEFAULT_TAG

\* The replace step left out: no row loses the tag.
ClearTagSkipped(tbl, tag) == tbl

\* UPDATE ... SET shortlist_tag=NULL, shortlisted_at=NULL WHERE shortlist_tag=?
ClearTag(tbl, tag) ==
    [k \in DOMAIN tbl |->
        IF tbl[k].shortlist_tag = Some(tag)
        THEN [tbl[k] EXCEPT !.shortlist_tag = NULL, !.shortlisted_at = NULL]
        ELSE tbl[k]]

\* The stamp restricted to rows that carry no tag yet.
StampTagUntaggedOnly(tbl, K, tag, now) ==
    [k \in DOMAIN tbl |->
        IF k \in K /\ tbl[k].shortlist_tag = NULL
        THEN [tbl[k] EXCEPT !.shortlist_tag = Some(tag), !.shortlisted_at = Some(now)]
        ELSE tbl[k]]

\* The stamp refreshing last_seen_at as well, as an upsert would.
StampTagTouchesSeen(tbl, K, tag, now) ==
    [k \in DOMAIN tbl |->
        IF k \in K
        THEN [tbl[k] EXCEPT !.shortlist_tag = Some(tag), !.shortlisted_at = Some(now),
                            !.last_seen_at = now]
        ELSE tbl[k]]

\* The stamp leaving alone the rows that carry another tag.
StampTagKeepsOtherTag(tbl, K, tag, now) ==
    [k \in DOMAIN tbl |->
        IF k \in K /\ tbl[k].shortlist_tag \in {NULL, Some(tag)}
        THEN [tbl[k] EXCEPT !.shortlist_tag = Some(tag), !.shortlisted_at = Some(now)]
        ELSE tbl[k]]

\* UPDATE ... SET shortlist_tag=?, shortlisted_at=? WHERE key=? for every key of K
StampTag(tbl, K, tag, now) ==
    [k \in DOMAIN tbl |->
        IF k \in K
        THEN [tbl[k] EXCEPT !.shortlist_tag = Some(tag), !.shortlisted_at = Some(now)]
        ELSE tbl[k]]

\* The WHERE clause run_shortlist of job_api.py builds.
JobShortlistWhere(row, f, now) ==
    /\ row.state \notin {STATE_APPLIED, STATE_IGNORED}
    /\ row.first_seen_at >= now - f.days
    /\ (Strip(f.location) # <<>> => Like(row.location, Strip(f.location)))
    /\ \A i \in 1..Len(f.keywords) :
          Strip(f.keywords[i]) # <<>> => Like(row.title, Strip(f.keywords[i]))
    /\ (f.only_unscored => ~row.match_score.some)

\* CASE state WHEN 'DESC_READY' THEN 0 WHEN 'NEW' THEN 1 ELSE 2 END
JobStatePriority(state) ==
    IF state = STATE_DESC_READY THEN 0 ELSE IF state = STATE_NEW THEN 1 ELSE 2

\* The second sort key ascending: the oldest row first.
SortsBeforeOldestFirst(pa, a, pb, b) ==
    \/ pa < pb
    \/ pa = pb /\ a.first_seen_at < b.first_seen_at

\* Row a sorts strictly before row b under ORDER BY priority, first_seen_at DESC.
SortsBefore(pa, a, pb, b) ==
    \/ pa < pb
    \/ pa = pb /\ a.first_seen_at > b.first_seen_at

\* LIMIT n: a negative n means no limit.
LimitCount(n, size) == IF n < 0 \/ n > size THEN size ELSE n

\* The key sets an ORDER BY ... LIMIT query may return: SQLite leaves the order
\* of rows that tie on the sort key open.
\* prio maps each state to the value of the CASE expression.
TopRows(tbl, cands, prio, limit) ==
    { K \in SUBSET cands :
        /\ Cardinality(K) = LimitCount(limit, Cardinality(cands))
        /\ \A a \in K, b \in cands \ K :
              ~SortsBefore(prio[tbl[b].state], tbl[b], prio[tbl[a].state], tbl[a]) }

\* rows carrying the tag: SELECT COUNT(*) ... WHERE shortlist_tag=?
Tagged(tbl, tag) == {k \in DOMAIN tbl : tbl[k].shortlist_tag = Some(tag)}

\* The rows the SELECT of run_shortlist (job_api.py) may return, on the table
\* left by the replace step.
JobShortlistRows(tbl, rawtag, f, replace, limit, now) ==
    LET cleared == IF replace THEN ClearTag(tbl, NormTag(rawtag)) ELSE tbl
        cands == {k \in DOMAIN cleared : JobShortlistWhere(cleared[k], f, now)}
    IN TopRows(cleared, cands, [s \in AllStates |-> JobStatePriority(s)], limit)

\* run_shortlist of job_api.py when its SELECT returns the rows K: the table
\* afterwards and the return value.
job_run_shortlist(tbl, rawtag, f, replace, limit, now, K) ==
    LET tag == NormTag(rawtag)
        cleared == IF replace THEN ClearTag(tbl, tag) ELSE tbl
        after == StampTag(cleared, K, tag, now)
    IN [tbl |-> after,
        ret |-> [tag |-> tag, marked |-> Cardinality(K),
                 total |-> Cardinality(Tagged(after, tag))]]

JobRunShortlist(Tags, Filters, Limits) ==
    /\ schema
    /\ \E rawtag \in Tags, f \in Filters, replace \in BOOLEAN, limit \in Limits :
         \E K \in JobShortlistRows(jobs, rawtag, f, replace, limit, clock) :
            LET r == job_run_shortlist(jobs, rawtag, f, replace, limit, clock, K)
            IN /\ jobs' = r.tbl
               /\ last' = [op |-> "run_shortlist", replace |-> replace, limit |-> limit,
                           ret |-> r.ret]
    /\ UNCHANGED <<loads, runs, clock, probe, agent, conns, schema, ui, app>>

\* Every key a job payload can derive, stored or not.
JobKeys == {stable_job_key(j) : j \in JobInputs}

\* final_state of update_description
DescribeState(existing_state, description_text) ==
    IF existing_state \notin PreserveStates
       /\ existing_state = STATE_NEW /\ description_text # <<>>
    THEN STATE_DESC_READY
    ELSE existing_state

\* final_desc of update_description
DescribeDesc(existing_desc, description_text) ==
    IF Truthy(existing_desc) THEN existing_desc ELSE Some(description_text)

\* final_source of update_description, before the COALESCE of the UPDATE.
DescribeSource(existing_desc, description_text, description_source) ==
    IF DescribeDesc(existing_desc, description_text) = Some(description_text)
    THEN Some(description_source)
    ELSE NULL

\* The row update_description leaves (the UPDATE statement).
DescribeRow(row, description_text, description_source) ==
    [row EXCEPT
       !.description_text = DescribeDesc(row.description_text, description_text),
       !.description_source =
           Coalesce(row.description_source,
                    DescribeSource(row.description_text, description_text,
                                   description_source)),
       !.state = DescribeState(row.state, description_text)]

DescribeTexts == {<<>>, <<"s">>}
DescribeSources == {"scrape"}

\* update_description: the table afterwards; ValueError("Job not found") for
\* a key not stored, which leaves the table as it is.
update_description(tbl, job_key, description_text, description_source) ==
    IF job_key \in DOMAIN tbl
    THEN [tbl |-> Put(tbl, job_key,
                      DescribeRow(tbl[job_key], description_text, description_source)),
          found |-> TRUE]
    ELSE [tbl |-> tbl, found |-> FALSE]

JobUpdateDescription(Keys, Texts, Sources) ==
    /\ schema
    /\ \E key \in Keys, text \in Texts, source \in Sources :
         LET r == update_description(jobs, key, text, source)
         IN /\ jobs' = r.tbl
            /\ last' = [op |-> "update_description", found |-> r.found]
    /\ UNCHANGED <<loads, runs, clock, probe, agent, conns, schema, ui, app>>

\* match_score values a caller posts, in tenths.
JobScores == {75}

\* An UPDATE without its WHERE clause, run whether or not the key is stored.
update_match_score_everywhere(tbl, job_key, match_score) ==
    [tbl |-> [k \in DOMAIN tbl |-> [tbl[k] EXCEPT !.match_score = Some(match_score)]],
     found |-> job_key \in DOMAIN tbl]

\* update_match_score: the table afterwards; ValueError("Job not found") for
\* a key not stored.
update_match_score(tbl, job_key, match_score) ==
    IF job_key \in DOMAIN tbl
    THEN [tbl |-> Put(tbl, job_key, [tbl[job_key] EXCEPT !.match_score = Some(match_score)]),
          found |-> TRUE]
    ELSE [tbl |-> tbl, found |-> FALSE]

JobUpdateMatchScore(Keys, Scores) ==
    /\ schema
    /\ \E key \in Keys, score \in Scores :
         LET r == update_match_score(jobs, key, score)
         IN /\ jobs' = r.tbl
            /\ last' = [op |-> "update_match_score", found |-> r.found]
    /\ UNCHANGED <<loads, runs, clock, probe, agent, conns, schema, ui, app>>

\* States written from outside the ingest code: the user marks a record as
\* applied or ignored, a reviewer marks it scored.  Terminal states are final.
MarkStates == {STATE_SCORED, STATE_APPLIED, STATE_IGNORED}

MarkRow(row, state) == [row EXCEPT !.state = state]

JobMark(States) ==
    /\ \E key \in DOMAIN jobs, state \in States :
         /\ jobs[key].state \notin {STATE_APPLIED, STATE_IGNORED}
         /\ jobs[key].state # state
         /\ jobs' = Put(jobs, key, MarkRow(jobs[key], state))
         /\ last' = [op |-> "mark"]
    /\ UNCHANGED <<loads, runs, clock, probe, agent, conns, schema, ui, app>>

\* ------------------------------------------------------------ load variant
\* A payload value is None (NULL), a str (Some(text)), an int (PyInt(n)), a
\* bool (PyBool(b): an int to isinstance, 1 or 0 in arithmetic) or a value of
\* another JSON type (PyOther: a float, a list or an object, of which the
\* model keeps str(x) and the truth value).
PyInt(n) == [some |-> TRUE, int |-> n]
PyBool(b) == [some |-> TRUE, int |-> IF b THEN 1 ELSE 0, bool |-> b]
PyOther(repr, truthy) == [some |-> TRUE, repr |-> repr, truthy |-> truthy]

IsInt(x) == x.some /\ "int" \in DOMAIN x
IsStr(x) == x.some /\ "val" \in DOMAIN x

Digits == <<"0", "1", "2", "3", "4", "5", "6", "7", "8", "9">>

IsDigit(c) == \E d \in 1..10 : Digits[d] = c

DigitVal(c) == (CHOOSE d \in 1..10 : Digits[d] = c) - 1

\* Decimal digits of n >= 0.
RECURSIVE NatStr(_)
NatStr(n) == IF n < 10 THEN <<Digits[n + 1]>> ELSE NatStr(n \div 10) \o <<Digits[(n % 10) + 1]>>

\* str(n) of an int
IntStr(n) == IF n < 0 THEN <<"-">> \o NatStr(-n) ELSE NatStr(n)

\* str(x) of a payload value that is not None
PyStr(x) ==
    IF "bool" \in DOMAIN x
    THEN (IF x.bool THEN <<"T", "r", "u", "e">> ELSE <<"F", "a", "l", "s", "e">>)
    ELSE IF IsInt(x) THEN IntStr(x.int)
    ELSE IF "repr" \in DOMAIN x THEN x.repr
    ELSE x.val

\* Python truthiness of a payload value: None, "" and 0 are falsy.
PyTruthy(x) ==
    x.some /\ (IF IsInt(x) THEN x.int # 0
               ELSE IF "truthy" \in DOMAIN x THEN x.truthy
               ELSE x.val # <<>>)

\* str(x or "")
StrOrEmpty(x) == IF PyTruthy(x) THEN PyStr(x) ELSE <<>>

\* "|".join(parts)
RECURSIVE Join(_)
Join(parts) ==
    IF parts = <<>> THEN <<>>
    ELSE IF Len(parts) = 1 THEN parts[1]
    ELSE parts[1] \o <<"|">> \o Join(Tail(parts))

\* key_parts with the volatile D2P column among them.
LoadKeyPartsWithD2P(load) ==
    << StrOrEmpty(load.O_City), StrOrEmpty(load.O_St), StrOrEmpty(load.D_City),
       StrOrEmpty(load.D_St), StrOrEmpty(load.Pickup), StrOrEmpty(load.Company),
       StrOrEmpty(load.Rate), StrOrEmpty(load.Distance), StrOrEmpty(load.D2P) >>

\* key_parts of stable_load_key, in order
LoadKeyParts(load) ==
    << StrOrEmpty(load.O_City), StrOrEmpty(load.O_St), StrOrEmpty(load.D_City),
       StrOrEmpty(load.D_St), StrOrEmpty(load.Pickup), StrOrEmpty(load.Company),
       StrOrEmpty(load.Rate), StrOrEmpty(load.Distance) >>

\* raw of stable_load_key: the text that is hashed
LoadKeyRaw(load) == Join(LoadKeyParts(load))

\* stable_load_key
stable_load_key(load) == <<"load", ":">> \o Digest(LoadKeyRaw(load))

\* text.replace(c, "")
RECURSIVE Remove(_, _)
Remove(s, c) ==
    IF s = <<>> THEN <<>>
    ELSE IF Head(s) = c THEN Remove(Tail(s), c)
    ELSE <<Head(s)>> \o Remove(Tail(s), c)

AllDigits(s) == s # <<>> /\ \A i \in 1..Len(s) : IsDigit(s[i])

\* Value of a string of digits.
RECURSIVE DigitsVal(_)
DigitsVal(s) ==
    IF s = <<>> THEN 0 ELSE 10 * DigitsVal(SubSeq(s, 1, Len(s) - 1)) + DigitVal(s[Len(s)])

\* int(text) for a text without surrounding blanks: an optional sign and
\* digits; NULL stands for ValueError.
ParseInt(text) ==
    LET body == IF text # <<>> /\ Head(text) \in {"+", "-"} THEN Tail(text) ELSE text
    IN IF AllDigits(body)
       THEN Some(IF Head(text) = "-" THEN -DigitsVal(body) ELSE DigitsVal(body))
       ELSE NULL

\* to_int: None for None, blank or unparseable input
to_int(value) ==
    IF ~value.some THEN NULL
    ELSE IF IsInt(value) THEN Some(value.int)
    ELSE LET text == Remove(Strip(PyStr(value)), ",")
         IN IF text = <<>> THEN NULL ELSE ParseInt(Strip(text))

\* float(text) in thousandths, for a decimal literal with an optional sign
\* and at most three decimals; NULL stands for ValueError.
ParseFloat(text) ==
    LET t == Strip(text)
        body == IF t # <<>> /\ Head(t) \in {"+", "-"} THEN Tail(t) ELSE t
        dots == {i \in 1..Len(body) : body[i] = "."}
        dot == IF dots = {} THEN Len(body) + 1 ELSE CHOOSE i \in dots : TRUE
        ip == SubSeq(body, 1, dot - 1)
        fp == SubSeq(body, dot + 1, Len(body))
        padded == fp \o SubSeq(<<"0", "0", "0">>, 1, 3 - Len(fp))
        ok == /\ Cardinality(dots) <= 1
              /\ Len(fp) <= 3
              /\ ip \o fp # <<>>
              /\ \A i \in 1..Len(ip) : IsDigit(ip[i])
              /\ \A i \in 1..Len(fp) : IsDigit(fp[i])
        mag == 1000 * DigitsVal(ip) + DigitsVal(padded)
    IN IF ok THEN Some(IF Head(t) = "-" THEN -mag ELSE mag) ELSE NULL

\* parse_rate with the text taken as it is, "$" and "," included.
ParseRateKeepsCurrency(value) ==
    IF ~value.some THEN NULL
    ELSE LET text == Strip(PyStr(value))
         IN IF text = <<>> THEN NULL ELSE ParseFloat(text)

\* parse_rate, in thousandths
parse_rate(value) ==
    IF ~value.some THEN NULL
    ELSE LET text == Remove(Remove(Strip(PyStr(value)), "$"), ",")
         IN IF text = <<>> THEN NULL ELSE ParseFloat(text)

\* parse_d2p, in thousandths
parse_d2p(value) ==
    IF ~value.some THEN NULL
    ELSE LET text == Strip(PyStr(value))
         IN IF text = <<>> THEN NULL ELSE ParseFloat(text)

RATE_MIN == 0
RATE_MAX == 3000
D2P_MIN == 0
D2P_MAX == 40
\* RATE_WEIGHT, D2P_WEIGHT in tenths; D2P_MISSING_PENALTY in score points
RATE_WEIGHT == 7
D2P_WEIGHT == 3
D2P_MISSING_PENALTY == 2

\* clamp with the lower bound left out.
ClampHighOnly(value, low, high) == IF high < value THEN high ELSE value

\* clamp
clamp(value, low, high) ==
    LET m == IF high < value THEN high ELSE value
    IN IF low > m THEN low ELSE m

\* round(x, 0) of the double computed for the rational num/den (den > 0):
\* the nearest integer.  Where num/den lies halfway between two integers, the
\* double, which carries the rounding errors of the binary products and sums,
\* lies on the half or on either side of it: `up` tells whether the result
\* is the upper neighbour.
RoundNearest(num, den, up) ==
    LET q == num \div den
        r == num % den
    IN IF 2 * r < den THEN q
       ELSE IF 2 * r > den THEN q + 1
       ELSE IF up THEN q + 1 ELSE q

\* math_match_score, in tenths.  With rate and d2p in thousandths,
\*   rate_norm = rn / RS  where RS = 1000 * (RATE_MAX - RATE_MIN)
\*   d2p_norm  = dn / DS  where DS = 1000 * (D2P_MAX - D2P_MIN)
\* and score * 10 = (RATE_WEIGHT*rn*DS + D2P_WEIGHT*dn*RS) * 10 / (RS*DS) less
\* the penalty; the scale 1000 is divided out of RS*DS to keep the integers small.
\* `up` is the direction round(score, 1) takes on a score halfway between two
\* tenths.
math_match_score(load, up) ==
    LET rate == parse_rate(load.Rate)
        d2p == parse_d2p(load.D2P)
        RS == 1000 * (RATE_MAX - RATE_MIN)
        DS == 1000 * (D2P_MAX - D2P_MIN)
        rn == IF rate.some THEN clamp(rate.val - 1000 * RATE_MIN, 0, RS) ELSE 0
        missing_d2p == ~d2p.some
        dn == IF missing_d2p THEN 0 ELSE clamp(DS - (d2p.val - 1000 * D2P_MIN), 0, DS)
        den == (RS \div 1000) * (DS \div 1000) * 1000
        num == RATE_WEIGHT * rn * (DS \div 1000) + D2P_WEIGHT * dn * (RS \div 1000)
        pen == IF missing_d2p THEN D2P_MISSING_PENALTY * den ELSE 0
        score == clamp(num - pen, 0, 10 * den)
    IN RoundNearest(score, den \div 10, up)

\* ------------------------------------------------------------------ dates
\* A calendar date is [y, m, d]; one tick of the clock is one day.
Today(t) == [y |-> 2026, m |-> 3, d |-> 13 + t]

IsLeap(y) == (y % 4 = 0 /\ y % 100 # 0) \/ y % 400 = 0

DaysInMonth(y, m) ==
    IF m = 2 THEN (IF IsLeap(y) THEN 29 ELSE 28)
    ELSE IF m \in {4, 6, 9, 11} THEN 30 ELSE 31

\* datetime accepts the date
ValidDate(y, m, d) == y \in 1..9999 /\ m \in 1..12 /\ d \in 1..DaysInMonth(y, m)

\* zero-padded decimal of width w
RECURSIVE Pad(_, _)
Pad(s, w) == IF Len(s) >= w THEN s ELSE Pad(<<"0">> \o s, w)

\* date.isoformat()
IsoFormat(date) ==
    Pad(NatStr(date.y), 4) \o <<"-">> \o Pad(NatStr(date.m), 2) \o <<"-">>
        \o Pad(NatStr(date.d), 2)

\* text.split(sep)
RECURSIVE Split(_, _)
Split(s, sep) ==
    LET hits == {i \in 1..Len(s) : s[i] = sep}
    IN IF hits = {} THEN <<s>>
       ELSE LET i == CHOOSE h \in hits : \A g \in hits : h <= g
            IN <<SubSeq(s, 1, i - 1)>> \o Split(SubSeq(s, i + 1, Len(s)), sep)

\* strptime directives %m and %d take one or two digits, %y two, %Y four.
OneOrTwoDigits(p) == Len(p) \in {1, 2} /\ AllDigits(p)

\* datetime.strptime(text, fmt).date() for the four formats of
\* normalize_pickup, with the %m/%d year replaced by today's; NULL stands for
\* ValueError.  A directive must consume its whole field, so the text is split
\* at the separators.
StrpDate(text, fmt, today) ==
    LET parts == IF fmt = "%Y-%m-%d" THEN Split(text, "-") ELSE Split(text, "/")
        want == IF fmt = "%m/%d" THEN 2 ELSE 3
        mp == IF fmt = "%Y-%m-%d" THEN 2 ELSE 1
        dp == IF fmt = "%Y-%m-%d" THEN 3 ELSE 2
        yp == IF fmt = "%Y-%m-%d" THEN 1 ELSE 3
        shaped ==
            /\ Len(parts) = want
            /\ OneOrTwoDigits(parts[mp])
            /\ OneOrTwoDigits(parts[dp])
            /\ (fmt = "%m/%d/%y" => Len(parts[yp]) = 2 /\ AllDigits(parts[yp]))
            /\ (fmt \in {"%m/%d/%Y", "%Y-%m-%d"} =>
                    Len(parts[yp]) = 4 /\ AllDigits(parts[yp]))
        yv == IF fmt = "%m/%d" THEN 1900 ELSE DigitsVal(parts[yp])
        year == IF fmt = "%m/%d/%y" THEN (IF yv < 69 THEN 2000 + yv ELSE 1900 + yv) ELSE yv
    IN IF shaped /\ ValidDate(year, DigitsVal(parts[mp]), DigitsVal(parts[dp]))
       THEN LET parsed == [y |-> year, m |-> DigitsVal(parts[mp]),
                           d |-> DigitsVal(parts[dp])]
            IN IF fmt = "%m/%d"
               THEN (IF ValidDate(today.y, parsed.m, parsed.d)
                     THEN Some([parsed EXCEPT !.y = today.y]) ELSE NULL)
               ELSE Some(parsed)
       ELSE NULL

PickupFormats == <<"%m/%d", "%m/%d/%y", "%m/%d/%Y", "%Y-%m-%d">>

\* The for loop of normalize_pickup: the first format that parses, else today.
RECURSIVE TryFormats(_, _, _)
TryFormats(text, i, today) ==
    IF i > Len(PickupFormats) THEN today
    ELSE LET r == StrpDate(text, PickupFormats[i], today)
         IN IF r.some THEN r.val ELSE TryFormats(text, i + 1, today)

\* normalize_pickup, for None or a str
normalize_pickup(value, today) ==
    IF ~value.some THEN IsoFormat(today)
    ELSE LET text == Strip(value.val)
         IN IF text = <<>> \/ Upper(text) = <<"T", "O", "D", "A", "Y">>
            THEN IsoFormat(today)
            ELSE IsoFormat(TryFormats(text, 1, today))

\* normalize_date_filter: None for None or a blank filter
normalize_date_filter(value, today) ==
    IF ~value.some THEN NULL
    ELSE LET text == Strip(value.val)
         IN IF text = <<>> THEN NULL
            ELSE IF Upper(text) = <<"T", "O", "D", "A", "Y">> THEN Some(IsoFormat(today))
            ELSE Some(normalize_pickup(Some(text), today))

\* What a call comes to: a value returned, or an exception that escapes.
Returned(v) == [raised |-> FALSE, value |-> v]
Raised(exc) == [raised |-> TRUE, exc |-> exc]

\* value.strip() on a value that is not None: str has the method, a value of
\* any other type raises AttributeError.
HasStrip(value) == IsStr(value)

\* A call of normalize_pickup with a value of any type.
normalize_pickup_call(value, today) ==
    IF value.some /\ ~HasStrip(value)
    THEN Raised("AttributeError")
    ELSE Returned(Some(normalize_pickup(value, today)))

\* A call of normalize_date_filter with a value of any type.
normalize_date_filter_call(value, today) ==
    IF value.some /\ ~HasStrip(value)
    THEN Raised("AttributeError")
    ELSE Returned(normalize_date_filter(value, today))

\* ------------------------------------------------------------- load store
\* A value bound to a TEXT column: an int is stored as its decimal text.
ToText(v) == IF IsInt(v) THEN Some(IntStr(v.int)) ELSE v

\* fields of upsert_load: the columns computed from the payload.  RPM, Weight,
\* Length, Equip, Mode, Updated and raw_json are copied like O-City and are
\* left out of the rows.
LoadFields(load, now) ==
    [ O_City |-> ToText(load.O_City),
      O_St |-> ToText(load.O_St),
      D_City |-> ToText(load.D_City),
      D_St |-> ToText(load.D_St),
      O_DH |-> to_int(load.O_DH),
      D_DH |-> to_int(load.D_DH),
      Distance |-> to_int(load.Distance),
      Rate |-> ToText(load.Rate),
      Pickup |-> Some(normalize_pickup(load.Pickup, Today(now))),
      Company |-> ToText(load.Company),
      D2P |-> ToText(load.D2P) ]

\* The row upsert_load inserts for a key not yet stored: the columns of
\* `fields` and the bookkeeping columns.
LoadInsertRow(load, now) ==
    LoadFields(load, now) @@
    [ state |-> STATE_READY,
      first_seen_at |-> now,
      last_seen_at |-> now,
      shortlist_tag |-> NULL,
      shortlisted_at |-> NULL,
      match_score |-> NULL ]

\* final_state with SCORED left out of preserve_states.
LoadUpsertStateResetsScored(existing_state) ==
    IF existing_state \in {STATE_APPLIED, STATE_IGNORED} THEN existing_state ELSE STATE_READY

\* final_state without the preserve_states test: every re-ingest makes READY.
LoadUpsertStateAlwaysReady(existing_state) == STATE_READY

\* final_state of upsert_load on an existing row.
LoadUpsertState(existing_state) ==
    IF existing_state \in PreserveStates THEN existing_state ELSE STATE_READY

\* The UPDATE written as a replacement of the row (INSERT OR REPLACE).
LoadUpdateRowAsReplace(row, load, now) == LoadInsertRow(load, now)

\* The row upsert_load leaves for a key already stored (the UPDATE statement):
\* the columns of `fields`, last_seen_at and state are written, the other
\* columns keep their values.
LoadUpdateRow(row, load, now) ==
    LoadFields(load, now) @@
    [ last_seen_at |-> now, state |-> LoadUpsertState(row.state) ] @@
    row

\* upsert_load: the table afterwards, and what it returns.
upsert_load(tbl, load, now) ==
    LET key == stable_load_key(load)
    IN IF key \notin DOMAIN tbl
       THEN [tbl |-> Put(tbl, key, LoadInsertRow(load, now)), outcome |-> "inserted"]
       ELSE [tbl |-> Put(tbl, key, LoadUpdateRow(tbl[key], load, now)),
             outcome |-> "updated"]

\* The upsert loop of run_scrape: the table after the batch, and the outcomes.
\* step[i] is the result of the i-th upsert.
UpsertLoads(tbl, batch, now) ==
    LET step[i \in 0..Len(batch)] ==
            IF i = 0
            THEN [tbl |-> tbl, outcome |-> "none"]
            ELSE upsert_load(step[i - 1].tbl, batch[i], now)
    IN [tbl |-> step[Len(batch)].tbl,
        outcomes |-> [i \in 1..Len(batch) |-> step[i].outcome]]

\* The overwrite flag ignored: no DELETE FROM loads.
ScrapeStartKeepsRows(tbl, overwrite) == tbl

\* The table the upsert loop of run_scrape starts from: DELETE FROM loads
\* when overwrite is set.
ScrapeStart(tbl, overwrite) == IF overwrite THEN EmptyTable ELSE tbl

\* What run_scrape of load_api.py leaves and returns, given the batch read and
\* the result u of the upsert loop.
LoadScrapeResult(batch, u) ==
    [tbl |-> u.tbl,
     run |-> [pages_fetched |-> 1, result_count |-> Len(batch)],
     outcomes |-> u.outcomes,
     ret |-> [pages_fetched |-> 1,
              total_returned |-> Len(batch),
              inserted |-> Count(u.outcomes, "inserted"),
              updated |-> Count(u.outcomes, "updated"),
              total_in_db |-> Cardinality(DOMAIN u.tbl)]]

\* run_scrape of load_api.py on table tbl: read the batch from the sample
\* file, clear the table if overwrite is set, upsert every record with one
\* `now`.
load_run_scrape(tbl, batch, overwrite, now) ==
    LoadScrapeResult(batch, UpsertLoads(ScrapeStart(tbl, overwrite), batch, now))

\* An overwrite ingest that clears the audit log together with the table.
LoadScrapeDoneClearsLog(r, overwrite, now) ==
    /\ loads' = r.tbl
    /\ runs' = IF overwrite THEN <<r.run>> ELSE Append(runs, r.run)
    /\ clock' = now
    /\ last' = [op |-> "run_scrape", overwrite |-> overwrite,
                outcomes |-> r.outcomes, ret |-> r.ret]

\* The effect of a run_scrape call with result r on the store.
LoadScrapeDone(r, overwrite, now) ==
    /\ loads' = r.tbl
    /\ runs' = Append(runs, r.run)
    /\ clock' = now
    /\ last' = [op |-> "run_scrape", overwrite |-> overwrite,
                outcomes |-> r.outcomes, ret |-> r.ret]

LoadRunScrape(Batches, Overwrites) ==
    /\ Len(runs) < MaxRuns
    /\ \E batch \in Batches, overwrite \in Overwrites, now \in clock..MaxTime :
         LoadScrapeDone(load_run_scrape(loads, batch, overwrite, now), overwrite, now)
    /\ schema' = TRUE
    /\ UNCHANGED <<jobs, probe, agent, conns, ui, app>>

\* run_scrape of load_api.py when upsert_load raises on a record of the batch
\* (an element of the sample file that is not an object has no .get): the
\* DELETE of an overwrite ingest is committed before the loop, the upserts of
\* the records before the failing one are not, and are rolled back when the
\* connection goes; no row is added to runs.
load_run_scrape_raised(tbl, run_rows, overwrite) ==
    [tbl |-> ScrapeStart(tbl, overwrite), runs |-> run_rows]

\* scrape_endpoint catches ValueError, FileNotFoundError and JSONDecodeError:
\* the AttributeError reaches the caller.  before is the number of records
\* upserted before the failing one.
LoadRunScrapeFails(Befores, Overwrites) ==
    /\ \E before \in Befores, overwrite \in Overwrites :
         /\ loads' = load_run_scrape_raised(loads, runs, overwrite).tbl
         /\ runs' = load_run_scrape_raised(loads, runs, overwrite).runs
         /\ last' = [op |-> "run_scrape_failed", raised |-> "AttributeError",
                     overwrite |-> overwrite, before |-> before]
    /\ schema' = TRUE
    /\ UNCHANGED <<jobs, clock, probe, agent, conns, ui, app>>

\* UPPER(column) = UPPER(?) on a nullable column
UpperEq(col, param) == col.some /\ Upper(col.val) = Upper(param)

\* column <= ? on a nullable INTEGER column
AtMost(col, bound) == col.some /\ col.val <= bound

\* The WHERE clause without its first condition, on the state.
LoadShortlistWhereAnyState(row, f, today) ==
    /\ LET date_filter == normalize_date_filter(f.date, today)
       IN Truthy(date_filter) => row.Pickup = date_filter
    /\ (Strip(f.o_city) # <<>> => UpperEq(row.O_City, Strip(f.o_city)))
    /\ (Strip(f.o_st) # <<>> => UpperEq(row.O_St, Strip(f.o_st)))
    /\ (Strip(f.d_city) # <<>> => UpperEq(row.D_City, Strip(f.d_city)))
    /\ (Strip(f.d_st) # <<>> => UpperEq(row.D_St, Strip(f.d_st)))
    /\ (f.o_dh_max.some => AtMost(row.O_DH, f.o_dh_max.val))
    /\ (f.d_dh_max.some => AtMost(row.D_DH, f.d_dh_max.val))
    /\ (f.only_unscored => ~row.match_score.some)

\* The WHERE clause run_shortlist of load_api.py builds.
LoadShortlistWhere(row, f, today) ==
    /\ row.state \notin {STATE_APPLIED, STATE_IGNORED}
    /\ LET date_filter == normalize_date_filter(f.date, today)
       IN Truthy(date_filter) => row.Pickup = date_filter
    /\ (Strip(f.o_city) # <<>> => UpperEq(row.O_City, Strip(f.o_city)))
    /\ (Strip(f.o_st) # <<>> => UpperEq(row.O_St, Strip(f.o_st)))
    /\ (Strip(f.d_city) # <<>> => UpperEq(row.D_City, Strip(f.d_city)))
    /\ (Strip(f.d_st) # <<>> => UpperEq(row.D_St, Strip(f.d_st)))
    /\ (f.o_dh_max.some => AtMost(row.O_DH, f.o_dh_max.val))
    /\ (f.d_dh_max.some => AtMost(row.D_DH, f.d_dh_max.val))
    /\ (f.only_unscored => ~row.match_score.some)

\* CASE state WHEN 'READY' THEN 0 WHEN 'NEW' THEN 1 ELSE 2 END
LoadStatePriority(state) ==
    IF state = STATE_READY THEN 0 ELSE IF state = STATE_NEW THEN 1 ELSE 2

\* The rows the SELECT of run_shortlist (load_api.py) may return, on the
\* table left by the replace step.
LoadShortlistRows(tbl, rawtag, f, replace, limit, now) ==
    LET cleared == IF replace THEN ClearTag(tbl, NormTag(rawtag)) ELSE tbl
        cands == {k \in DOMAIN cleared : LoadShortlistWhere(cleared[k], f, Today(now))}
    IN TopRows(cleared, cands, [s \in AllStates |-> LoadStatePriority(s)], limit)

\* run_shortlist of load_api.py when its SELECT returns the rows K: the table
\* afterwards and the return value.
load_run_shortlist(tbl, rawtag, f, replace, limit, now, K) ==
    LET tag == NormTag(rawtag)
        cleared == IF replace THEN ClearTag(tbl, tag) ELSE tbl
        after == StampTag(cleared, K, tag, now)
    IN [tbl |-> after,
        ret |-> [tag |-> tag, marked |-> Cardinality(K),
                 total |-> Cardinality(Tagged(after, tag))]]

LoadRunShortlist(Tags, Filters, Limits) ==
    /\ schema
    /\ \E rawtag \in Tags, f \in Filters, replace \in BOOLEAN, limit \in Limits :
         \E K \in LoadShortlistRows(loads, rawtag, f, replace, limit, clock) :
            LET r == load_run_shortlist(loads, rawtag, f, replace, limit, clock, K)
            IN /\ loads' = r.tbl
               /\ last' = [op |-> "run_shortlist", replace |-> replace, limit |-> limit,
                           ret |-> r.ret]
    /\ UNCHANGED <<jobs, runs, clock, probe, agent, conns, schema, ui, app>>

\* The batch update promoting the state as well, as a scorer of jobs would.
WriteScoresAndState(tbl, K, up) ==
    [k \in DOMAIN tbl |->
        IF k \in K
        THEN [tbl[k] EXCEPT !.match_score = Some(math_match_score(tbl[k], up[k])),
                            !.state = STATE_SCORED]
        ELSE tbl[k]]

\* executemany("UPDATE loads SET match_score=? WHERE load_key=?", updates),
\* each score computed by math_match_score from the row's Rate and D2P; up[k]
\* is the direction its rounding takes for row k.
WriteScores(tbl, K, up) ==
    [k \in DOMAIN tbl |->
        IF k \in K
        THEN [tbl[k] EXCEPT !.match_score = Some(math_match_score(tbl[k], up[k]))]
        ELSE tbl[k]]

\* The WHERE clause without the only_unscored condition.
ScoreWhereAnyScore(row, tag, only_unscored) == row.shortlist_tag = Some(tag)

\* The WHERE clause of score_tagged_loads.
ScoreWhere(row, tag, only_unscored) ==
    /\ row.shortlist_tag = Some(tag)
    /\ (only_unscored => ~row.match_score.some)

\* The rows the SELECT of score_tagged_loads may return.
ScoreRows(tbl, tag, only_unscored, limit) ==
    TopRows(tbl, {k \in DOMAIN tbl : ScoreWhere(tbl[k], tag, only_unscored)},
            [s \in AllStates |-> LoadStatePriority(s)], limit)

\* The batch scorer returning without its UPDATE.
score_tagged_loads_unwritten(tbl, tag, K, up) ==
    [tbl |-> tbl, ret |-> [tag |-> tag, scored |-> Cardinality(K)]]

\* score_tagged_loads when its SELECT returns the rows K: the table afterwards
\* and the return value.
score_tagged_loads(tbl, tag, K, up) ==
    [tbl |-> WriteScores(tbl, K, up), ret |-> [tag |-> tag, scored |-> Cardinality(K)]]

\* score_tagged_loads: ValueError("Tag is required") for an empty tag, before
\* the store is opened.
ScoreTaggedLoads(Tags, Limits) ==
    /\ schema
    /\ \E tag \in Tags, only_unscored \in BOOLEAN, limit \in Limits :
         IF tag = <<>>
         THEN /\ loads' = loads
              /\ last' = [op |-> "score_tagged_loads", error |-> TRUE]
         ELSE \E K \in ScoreRows(loads, tag, only_unscored, limit) :
               \E up \in [K -> BOOLEAN] :
                 LET r == score_tagged_loads(loads, tag, K, up)
                 IN /\ loads' = r.tbl
                    /\ last' = [op |-> "score_tagged_loads", error |-> FALSE,
                                only_unscored |-> only_unscored, ret |-> r.ret]
    /\ UNCHANGED <<jobs, runs, clock, probe, agent, conns, schema, ui, app>>

LoadMark(States) ==
    /\ \E key \in DOMAIN loads, state \in States :
         /\ loads[key].state \notin {STATE_APPLIED, STATE_IGNORED}
         /\ loads[key].state # state
         /\ loads' = Put(loads, key, MarkRow(loads[key], state))
         /\ last' = [op |-> "mark"]
    /\ UNCHANGED <<jobs, runs, clock, probe, agent, conns, schema, ui, app>>

\* A caller starts to call score_tagged_loads(tag, only_unscored=True, limit)
\* over and over, with no other operation in between; probe keeps its
\* arguments.
StartScoreLoop(Tags, Limits) ==
    /\ probe = NULL
    /\ \E tag \in Tags, limit \in Limits :
          probe' = [scoring |-> TRUE, tag |-> tag, limit |-> limit]
    /\ last' = [op |-> "score_loop"]
    /\ UNCHANGED <<jobs, loads, runs, clock, agent, conns, schema, ui, app>>

\* One call of the loop.
ScoreLoopCall ==
    /\ schema
    /\ probe # NULL
    /\ \E K \in ScoreRows(loads, probe.tag, TRUE, probe.limit) :
          \E up \in [K -> BOOLEAN] :
             LET r == score_tagged_loads(loads, probe.tag, K, up)
             IN /\ loads' = r.tbl
                /\ last' = [op |-> "score_tagged_loads", error |-> FALSE,
                            only_unscored |-> TRUE, ret |-> r.ret]
    /\ UNCHANGED <<jobs, runs, clock, probe, agent, conns, schema, ui, app>>

\* ------------------------------------------------------------ query_loads
\* The WHERE clause query_loads builds from its parameters q: the tag as it
\* is given, the filters of the shortlist, the states.
LoadQueryWhere(row, q, today) ==
    /\ (Truthy(q.tag) => row.shortlist_tag = q.tag)
    /\ LET date_filter == normalize_date_filter(q.date, today)
       IN Truthy(date_filter) => row.Pickup = date_filter
    /\ (Strip(q.o_city) # <<>> => UpperEq(row.O_City, Strip(q.o_city)))
    /\ (Strip(q.o_st) # <<>> => UpperEq(row.O_St, Strip(q.o_st)))
    /\ (Strip(q.d_city) # <<>> => UpperEq(row.D_City, Strip(q.d_city)))
    /\ (Strip(q.d_st) # <<>> => UpperEq(row.D_St, Strip(q.d_st)))
    /\ (q.o_dh_max.some => AtMost(row.O_DH, q.o_dh_max.val))
    /\ (q.d_dh_max.some => AtMost(row.D_DH, q.d_dh_max.val))
    /\ (q.only_unscored => ~row.match_score.some)
    /\ (q.states # {} => row.state \in q.states)

\* Unscored rows first: CASE WHEN match_score IS NULL THEN 0 ELSE 1 END.
QuerySortsBeforeUnscoredFirst(a, b) ==
    LET na == IF a.match_score.some THEN 1 ELSE 0
        nb == IF b.match_score.some THEN 1 ELSE 0
    IN \/ na < nb
       \/ na = nb /\ a.match_score.some /\ a.match_score.val > b.match_score.val
       \/ /\ na = nb
          /\ a.match_score = b.match_score
          /\ SortsBefore(LoadStatePriority(a.state), a, LoadStatePriority(b.state), b)

\* Row a sorts strictly before row b under ORDER BY
\* CASE WHEN match_score IS NULL THEN 1 ELSE 0 END, match_score DESC,
\* the state priority, first_seen_at DESC.
QuerySortsBefore(a, b) ==
    LET na == IF a.match_score.some THEN 0 ELSE 1
        nb == IF b.match_score.some THEN 0 ELSE 1
    IN \/ na < nb
       \/ na = nb /\ a.match_score.some /\ a.match_score.val > b.match_score.val
       \/ /\ na = nb
          /\ a.match_score = b.match_score
          /\ SortsBefore(LoadStatePriority(a.state), a, LoadStatePriority(b.state), b)

\* LIMIT ? OFFSET ? on n rows: the positions returned.  A negative limit
\* means no limit, a negative offset none.
PageOfRows(n, limit, offset) ==
    LET from == IF offset < 0 THEN 0 ELSE offset
        upto == IF limit < 0 \/ from + limit > n THEN n ELSE from + limit
    IN (from + 1)..upto

\* The rows cands in the order of the ORDER BY of query_loads, rows that tie
\* in any order, cut by LIMIT and OFFSET.
SortedPages(tbl, cands, limit, offset) ==
    LET n == Cardinality(cands)
        sorted == { x \in [1..n -> cands] :
                      /\ \A i \in 1..n, j \in 1..n : i # j => x[i] # x[j]
                      /\ \A i \in 1..n, j \in 1..n :
                            i < j => ~QuerySortsBefore(tbl[x[j]], tbl[x[i]]) }
        page == PageOfRows(n, limit, offset)
    IN { [i \in 1..Cardinality(page) |-> x[i + (IF offset < 0 THEN 0 ELSE offset)]] :
           x \in sorted }

\* The results query_loads may return, as the keys of the rows in order: the
\* rows its WHERE clause selects, sorted and cut.
query_loads(tbl, q, limit, offset, today) ==
    UNION { SortedPages(tbl, cands, limit, offset) :
              cands \in {{k \in DOMAIN tbl : LoadQueryWhere(tbl[k], q, today)}} }

\* query_loads reads the store and returns.
LoadQuery(Queries, Limits, Offsets) ==
    /\ schema
    /\ \E q \in Queries, limit \in Limits, offset \in Offsets :
         \E res \in query_loads(loads, q, limit, offset, Today(clock)) :
            last' = [op |-> "query_loads", q |-> q, limit |-> limit, offset |-> offset,
                     results |-> res]
    /\ UNCHANGED <<jobs, loads, runs, clock, probe, agent, conns, schema, ui, app>>

\* ---------------------------------------------------------- the load UI
\* The script of the page served by load_api.py.  ui.intervals is the table of
\* interval timers the browser keeps, each with its id and its callback;
\* ui.running holds the runs of runFiltersAndLoad that are suspended at an
\* await, each with the request it waits for.  The handlers are callable in
\* every state: that the controls are disabled during a run is not relied on.
TimerIds == {1, 2, 3}

Intervals(u, cb) == {t \in u.intervals : t.cb = cb}

\* The id setInterval hands out: one no active timer has.
FreeId(u) ==
    CHOOSE i \in TimerIds :
        /\ \A t \in u.intervals : t.id # i
        /\ \A j \in TimerIds : j < i => \E t \in u.intervals : t.id = j

setInterval(u, cb) == [u EXCEPT !.intervals = @ \cup {[id |-> FreeId(u), cb |-> cb]}]

clearInterval(u, id) == [u EXCEPT !.intervals = {t \in @ : t.id # id}]

clearCountdown(u) ==
    LET a == IF u.countdownTimer # 0
             THEN [clearInterval(u, u.countdownTimer) EXCEPT !.countdownTimer = 0]
             ELSE u
    IN [a EXCEPT !.nextRefreshAt = FALSE]

\* updateAutoRefreshControls: apart from labels and the disabled flag of the
\* scrape button, the countdown is cleared when auto refresh is off.
updateAutoRefreshControls(u) == IF u.seconds <= 0 THEN clearCountdown(u) ELSE u

setAutoRefresh(u) ==
    LET a == IF u.refreshTimer # 0
             THEN [clearInterval(u, u.refreshTimer) EXCEPT !.refreshTimer = 0]
             ELSE u
        b == IF a.seconds > 0 /\ a.hasRunFilters
             THEN LET c == [a EXCEPT !.nextRefreshAt = TRUE]
                      d == IF c.countdownTimer = 0
                           THEN [setInterval(c, "countdown") EXCEPT !.countdownTimer = FreeId(c)]
                           ELSE c
                  IN [setInterval(d, "refresh") EXCEPT !.refreshTimer = FreeId(d)]
             ELSE clearCountdown(a)
    IN updateAutoRefreshControls(b)

\* runFiltersAndLoad up to its first await, without the test of isRunning.
runFiltersAndLoadUnguarded(u, shouldScrape) ==
    LET a == [u EXCEPT !.isRunning = TRUE]
        b == IF shouldScrape THEN clearCountdown(a) ELSE a
    IN [b EXCEPT !.running =
            Append(@, [pc |-> IF shouldScrape THEN "scrape" ELSE "shortlist",
                       shouldScrape |-> shouldScrape])]

\* runFiltersAndLoad up to its first await: it returns at once while
\* isRunning, else sets isRunning and sends its first request.
runFiltersAndLoad(u, shouldScrape) ==
    IF u.isRunning THEN u
    ELSE LET a == [u EXCEPT !.isRunning = TRUE]
             b == IF shouldScrape THEN clearCountdown(a) ELSE a
         IN [b EXCEPT !.running =
                 Append(@, [pc |-> IF shouldScrape THEN "scrape" ELSE "shortlist",
                            shouldScrape |-> shouldScrape])]

\* The request a run sends after the one it waited for.
NextRequest(pc) ==
    CASE pc = "scrape" -> "shortlist"
      [] pc = "shortlist" -> "score"
      [] pc = "score" -> "query"
      [] pc = "query" -> "done"

WithoutRun(u, i) ==
    [u EXCEPT !.running = SubSeq(@, 1, i - 1) \o SubSeq(@, i + 1, Len(@))]

\* The finally block: isRunning = false, setBusyState(false).
RunFinally(u, i) == updateAutoRefreshControls([WithoutRun(u, i) EXCEPT !.isRunning = FALSE])

\* The request run i waits for is answered.  A good answer to a request
\* other than the last sends the next; a good answer to /loads/query
\* completes the try block (hasRunFilters = true, setAutoRefresh()); an
\* error answer, or an answer the script cannot use, goes to the catch
\* block.  Both ends pass the finally block.
runFiltersAndLoadResume(u, i, ok) ==
    LET pc == NextRequest(u.running[i].pc)
    IN IF ~ok THEN RunFinally(u, i)
       ELSE IF pc # "done" THEN [u EXCEPT !.running[i].pc = pc]
       ELSE RunFinally(updateAutoRefreshControls(setAutoRefresh([u EXCEPT !.hasRunFilters = TRUE])), i)

\* How many runs in flight the model follows.
RunSlots == {1, 2}

\* A click on btn-shortlist.
ClickShortlist ==
    /\ Len(ui.running) + 1 \in RunSlots
    /\ ui' = runFiltersAndLoad(ui, FALSE)
    /\ last' = [op |-> "trigger", by |-> "btn-shortlist"]
    /\ UNCHANGED <<jobs, loads, runs, clock, probe, agent, conns, schema, app>>

\* The auto-refresh interval timer fires.
RefreshTick ==
    /\ Len(ui.running) + 1 \in RunSlots
    /\ Intervals(ui, "refresh") # {}
    /\ ui' = runFiltersAndLoad(ui, TRUE)
    /\ last' = [op |-> "trigger", by |-> "refreshTimer"]
    /\ UNCHANGED <<jobs, loads, runs, clock, probe, agent, conns, schema, app>>

\* The user picks an auto-refresh interval.
ChangeAutoRefresh(Seconds) ==
    /\ \E seconds \in Seconds : ui' = setAutoRefresh([ui EXCEPT !.seconds = seconds])
    /\ last' = [op |-> "auto_refresh"]
    /\ UNCHANGED <<jobs, loads, runs, clock, probe, agent, conns, schema, app>>

\* A request of a run in flight is answered.
RunAnswered ==
    /\ \E i \in 1..Len(ui.running), ok \in BOOLEAN :
          /\ ui' = runFiltersAndLoadResume(ui, i, ok)
          /\ last' = [op |-> IF Len(ui'.running) < Len(ui.running) THEN "run_end" ELSE "run_step",
                      ok |-> ok]
    /\ UNCHANGED <<jobs, loads, runs, clock, probe, agent, conns, schema, app>>

\* ---------------------------------------------------- overlapping ingests
\* The write of upsert_load, given what its SELECT found: INSERT for no row,
\* UPDATE otherwise.  load_key is the PRIMARY KEY of loads: an INSERT of a
\* key that the table holds by now raises sqlite3.IntegrityError.
upsert_load_write(tbl, load, now, found) ==
    LET key == stable_load_key(load)
    IN IF ~found
       THEN IF key \in DOMAIN tbl
            THEN Raised("IntegrityError")
            ELSE Returned([tbl |-> Put(tbl, key, LoadInsertRow(load, now)),
                           outcome |-> "inserted"])
       ELSE IF key \in DOMAIN tbl
            THEN Returned([tbl |-> Put(tbl, key, LoadUpdateRow(tbl[key], load, now)),
                           outcome |-> "updated"])
            ELSE Returned([tbl |-> tbl, outcome |-> "updated"])

\* The two connections of two run_scrape calls on the same store file.
Conns == DOMAIN NoConns

\* Connection c holds the write lock: it has written and not yet committed.
HoldsLock(c) == conns[c].pc = "written"

\* run_scrape up to the upsert loop: sqlite3.connect, the sample file read
\* (one record), now = utc_now(); overwrite is not set.
OverlapBegin(Inputs) ==
    /\ \E load \in Inputs, c \in Conns :
          /\ conns[c].pc = "idle"
          /\ conns' = [conns EXCEPT ![c] =
                          [pc |-> "began", load |-> load, now |-> clock,
                           fresh |-> stable_load_key(load) \notin DOMAIN loads]]
    /\ last' = [op |-> "overlap_begin"]
    /\ UNCHANGED <<jobs, loads, runs, clock, probe, agent, schema, ui, app>>

\* SELECT state FROM loads WHERE load_key = ?: a read sees the committed
\* table, whether or not another connection holds the write lock.
OverlapSelect ==
    /\ \E c \in Conns :
          /\ conns[c].pc = "began"
          /\ conns' = [conns EXCEPT ![c] =
                          [@ EXCEPT !.pc = "selected"] @@
                          [found |-> stable_load_key(conns[c].load) \in DOMAIN loads]]
    /\ last' = [op |-> "overlap_select"]
    /\ UNCHANGED <<jobs, loads, runs, clock, probe, agent, schema, ui, app>>

\* The INSERT or UPDATE of upsert_load.  While another connection holds the
\* write lock the statement waits; it runs once the lock is free.
OverlapWrite ==
    /\ \E c \in Conns :
          /\ conns[c].pc = "selected"
          /\ \A d \in Conns \ {c} : ~HoldsLock(d)
          /\ LET w == upsert_load_write(loads, conns[c].load, conns[c].now, conns[c].found)
             IN conns' = [conns EXCEPT ![c] =
                            IF w.raised
                            THEN [@ EXCEPT !.pc = "failed"] @@ [exc |-> w.exc]
                            ELSE [@ EXCEPT !.pc = "written"] @@
                                 [pending |-> w.value.tbl, outcome |-> w.value.outcome]]
    /\ last' = [op |-> "overlap_write"]
    /\ UNCHANGED <<jobs, loads, runs, clock, probe, agent, schema, ui, app>>

\* The statement has waited for the lock longer than the busy timeout of the
\* connection: sqlite3.OperationalError("database is locked").
OverlapBusy ==
    /\ \E c \in Conns :
          /\ conns[c].pc = "selected"
          /\ \E d \in Conns \ {c} : HoldsLock(d)
          /\ conns' = [conns EXCEPT ![c] =
                          [@ EXCEPT !.pc = "failed"] @@ [exc |-> "OperationalError"]]
    /\ last' = [op |-> "overlap_busy"]
    /\ UNCHANGED <<jobs, loads, runs, clock, probe, agent, schema, ui, app>>

\* INSERT INTO runs and con.commit(): the writes of the connection become
\* the table.
OverlapCommit ==
    /\ \E c \in Conns :
          /\ conns[c].pc = "written"
          /\ loads' = conns[c].pending
          /\ runs' = Append(runs, [pages_fetched |-> 1, result_count |-> 1])
          /\ conns' = [conns EXCEPT ![c] = [@ EXCEPT !.pc = "done"]]
    /\ last' = [op |-> "overlap_commit"]
    /\ UNCHANGED <<jobs, clock, probe, agent, schema, ui, app>>

\* ------------------------------------------------------- agent_runner.py
\* The WHERE clause query_jobs builds from its parameters q.
JobQueryWhere(row, q, now) ==
    /\ (Truthy(q.tag) => row.shortlist_tag = q.tag)
    /\ (q.days.some => row.first_seen_at >= now - q.days.val)
    /\ (Strip(q.location) # <<>> => Like(row.location, Strip(q.location)))
    /\ \A i \in 1..Len(q.keywords) :
          Strip(q.keywords[i]) # <<>> => Like(row.title, Strip(q.keywords[i]))
    /\ (q.states.some /\ q.states.val # {} => row.state \in q.states.val)
    /\ (q.only_unscored => ~row.match_score.some)
    /\ (q.require_description => row.description_text.some)

\* The columns of a row that the scoring loop reads from a query result.
QueryRow(tbl, k) ==
    [job_key |-> k, description_text |-> tbl[k].description_text,
     redirect_url |-> tbl[k].redirect_url]

\* The results query_jobs may return (offset 0): the rows of the SELECT in
\* the order of its ORDER BY, cut at the limit; rows that tie come in any
\* order.
query_jobs(tbl, q, limit, now) ==
    LET cands == {k \in DOMAIN tbl : JobQueryWhere(tbl[k], q, now)}
        prio == [st \in AllStates |-> JobStatePriority(st)]
        n == LimitCount(limit, Cardinality(cands))
    IN { [i \in 1..n |-> QueryRow(tbl, ks[i])] :
           ks \in { x \in [1..n -> cands] :
                      /\ \A i \in 1..n, j \in 1..n : i # j => x[i] # x[j]
                      /\ \A i \in 1..n, j \in 1..n :
                            i < j => ~SortsBefore(prio[tbl[x[j]].state], tbl[x[j]],
                                                  prio[tbl[x[i]].state], tbl[x[i]])
                      /\ \A i \in 1..n, b \in cands \ {x[j] : j \in 1..n} :
                            ~SortsBefore(prio[tbl[b].state], tbl[b],
                                         prio[tbl[x[i]].state], tbl[x[i]]) } }

\* The first match of (\d+(?:\.\d+)?) in text, NULL when there is none.
FirstNumber(text) ==
    LET starts == {i \in 1..Len(text) : IsDigit(text[i])}
    IN IF starts = {} THEN NULL
       ELSE LET a == CHOOSE i \in starts : \A j \in starts : i <= j
                RunEnd(from) ==
                    CHOOSE e \in from..Len(text) :
                       /\ \A j \in from..e : IsDigit(text[j])
                       /\ (e = Len(text) \/ ~IsDigit(text[e + 1]))
                b == RunEnd(a)
                frac == b + 2 <= Len(text) /\ text[b + 1] = "." /\ IsDigit(text[b + 2])
            IN Some(SubSeq(text, a, IF frac THEN RunEnd(b + 2) ELSE b))

\* parse_score, in tenths: the first number of the reply, brought into
\* 0..10; NULL stands for ValueError("No numeric score found ...").
parse_score(text) ==
    LET match == FirstNumber(text)
    IN IF ~match.some THEN NULL
       ELSE LET score == ParseFloat(match.val).val \div 100
            IN Some(IF score < 0 THEN 0 ELSE IF score > 100 THEN 100 ELSE score)

\* What an HTTP call of the loop can come to: a requests.RequestException,
\* or a reply with this text.
Failure == [ok |-> FALSE]
Reply(text) == [ok |-> TRUE, text |-> text]

\* A skip that moves on without counting the job.
AgentSkipUncounted(a, event) ==
    [a EXCEPT !.i = @ + 1, !.events = Append(@, event)]

\* The loop after `skipped += 1; continue`.
AgentSkip(a, event) ==
    [a EXCEPT !.skipped = @ + 1, !.i = @ + 1, !.events = Append(@, event)]

\* main() left by an exception that the loop does not catch.
AgentCrash(a, event) == [a EXCEPT !.pc = "crashed", !.events = Append(@, event)]

\* The second half of an iteration, from call_openai_score on: a is the
\* agent with `described` already counted, tbl the table after the describe
\* call, reply what the scoring collaborator answers.
AgentScore(tbl, a, job_key, reply) ==
    IF ~reply.ok THEN [tbl |-> tbl, agent |-> AgentSkip(a, "score_failed")]
    ELSE IF ~parse_score(reply.text).some
    THEN [tbl |-> tbl, agent |-> AgentCrash(a, "malformed")]
    ELSE IF ~update_match_score(tbl, job_key, parse_score(reply.text).val).found
    THEN [tbl |-> tbl, agent |-> AgentCrash(a, "api_failed")]
    ELSE [tbl |-> update_match_score(tbl, job_key, parse_score(reply.text).val).tbl,
          agent |-> [a EXCEPT !.scored = @ + 1, !.i = @ + 1,
                              !.events = Append(@, "scored")]]

\* One iteration of the loop of main() on job = jobs[i] of the query result:
\* fetched is what fetch_description comes to, reply what the scoring
\* collaborator answers; the store answers every describe and match-score
\* call (404 for a key it does not hold, which raise_for_status raises).
agent_iteration(tbl, a, fetched, reply) ==
    LET job == a.queue[a.i]
    IN IF Truthy(job.description_text)
       THEN AgentScore(tbl, a, job.job_key, reply)
       ELSE IF ~Truthy(job.redirect_url)
       THEN [tbl |-> tbl, agent |-> AgentSkip(a, "no_url")]
       ELSE IF ~fetched.ok
       THEN [tbl |-> tbl, agent |-> AgentSkip(a, "fetch_failed")]
       ELSE IF ~update_description(tbl, job.job_key, fetched.text, "scrape").found
       THEN [tbl |-> tbl, agent |-> AgentCrash(a, "api_failed")]
       ELSE AgentScore(update_description(tbl, job.job_key, fetched.text, "scrape").tbl,
                       [a EXCEPT !.described = @ + 1], job.job_key, reply)

\* The agent entering its loop over the query result.
AgentLoop(queue) ==
    [pc |-> "loop", queue |-> queue, i |-> 1, described |-> 0, scored |-> 0,
     skipped |-> 0, events |-> <<>>]

\* The parameters main() sends with /jobs/query.
AgentQuery(args) ==
    [tag |-> Some(args.tag), days |-> Some(args.days), location |-> args.location,
     keywords |-> args.keywords, states |-> NULL, only_unscored |-> ~args.overwrite,
     require_description |-> FALSE]

\* The filters main() sends with /shortlist.
AgentFilter(args) ==
    [location |-> args.location, keywords |-> args.keywords, days |-> args.days,
     only_unscored |-> ~args.overwrite]

\* main() up to the loop: the /shortlist call, then the /jobs/query call
\* (its own /scrape call, when not skipped, is a run_scrape before these).
AgentStart(Args) ==
    /\ agent.pc = "idle"
    /\ \E args \in Args :
         \E K \in JobShortlistRows(jobs, args.tag, AgentFilter(args), args.replace,
                                   args.limit, clock) :
            /\ jobs' = job_run_shortlist(jobs, args.tag, AgentFilter(args), args.replace,
                                         args.limit, clock, K).tbl
            /\ \E queue \in query_jobs(jobs', AgentQuery(args), args.limit, clock) :
                  agent' = AgentLoop(queue)
    /\ last' = [op |-> "agent_start"]
    /\ UNCHANGED <<loads, runs, clock, probe, conns, schema, ui, app>>

\* for job in jobs: one iteration.
AgentStep(Fetches, Replies) ==
    /\ agent.pc = "loop"
    /\ agent.i <= Len(agent.queue)
    /\ \E fetched \in Fetches, reply \in Replies :
          /\ jobs' = agent_iteration(jobs, agent, fetched, reply).tbl
          /\ agent' = agent_iteration(jobs, agent, fetched, reply).agent
    /\ last' = [op |-> "agent_step"]
    /\ UNCHANGED <<loads, runs, clock, probe, conns, schema, ui, app>>

\* The loop is through: main() prints its counters and returns.
AgentFinish ==
    /\ agent.pc = "loop"
    /\ agent.i > Len(agent.queue)
    /\ agent' = [agent EXCEPT !.pc = "done"]
    /\ last' = [op |-> "agent_done"]
    /\ UNCHANGED <<jobs, loads, runs, clock, probe, conns, schema, ui, app>>

\* ---------------------------------------------------------- specifications
\* Spec: the life of one record in each store, under every operation.
\* One job key (external id 7) and one load key; the description, and the
\* deadhead with the D2P, vary between ingests.
OneJobInputs ==
    { [id |-> Some(<<"7">>), redirect_url |-> Some(<<"u">>), description |-> d,
       title |-> Some(<<"x">>), location |-> Some(<<"p">>)] :
        d \in {NULL, Some(<<" ">>), Some(<<" ", "d">>)} }

OneLoadInputs ==
    { [O_City |-> Some(<<"a">>), O_St |-> Some(<<"T", "X">>), D_City |-> Some(<<"b">>),
       D_St |-> NULL, O_DH |-> odh, D_DH |-> PyInt(9), Distance |-> Some(<<"1", "2">>),
       Rate |-> Some(<<"$", "1", ",", "5", "0", "0">>), Pickup |-> Some(<<"T", "O", "D", "A", "Y">>),
       Company |-> Some(<<"c">>), D2P |-> d2p] :
        <<odh, d2p>> \in { <<NULL, NULL>>, <<Some(<<"5">>), Some(<<"1", "0">>)>> } }

NoLoadFilter ==
    [date |-> NULL, o_city |-> <<>>, o_st |-> <<>>, d_city |-> <<>>, d_st |-> <<>>,
     o_dh_max |-> NULL, d_dh_max |-> NULL, only_unscored |-> FALSE]

NoJobFilter == [location |-> <<>>, keywords |-> <<>>, days |-> 1, only_unscored |-> FALSE]

Init ==
    /\ jobs = EmptyTable
    /\ loads = EmptyTable
    /\ runs = <<>>
    /\ clock = 1
    /\ last = [op |-> "init"]
    /\ agent = AgentIdle
    /\ conns = NoConns
    /\ schema = TRUE
    /\ ui = UiLoaded
    /\ probe = NULL
    /\ app \in {"job_api", "load_api"}

JobNext ==
    \/ JobRunScrape(SeqsUpTo({<<j>> : j \in OneJobInputs}, 1), {1})
    \/ JobRunShortlist({<<"A">>}, {NoJobFilter, [NoJobFilter EXCEPT !.only_unscored = TRUE]},
                       {-1, 0})
    \/ JobUpdateDescription(JobKeys, DescribeTexts, DescribeSources)
    \/ JobUpdateMatchScore(JobKeys, JobScores)
    \/ JobMark(MarkStates)

LoadNext ==
    \/ LoadRunScrape(SeqsUpTo(OneLoadInputs, 1), BOOLEAN)
    \/ LoadRunShortlist({<<"A">>},
                        {NoLoadFilter, [NoLoadFilter EXCEPT !.o_dh_max = Some(4)]}, {-1, 0})
    \/ ScoreTaggedLoads({<<>>, <<"A">>}, {-1, 0})
    \/ LoadMark(MarkStates)

Next ==
    \/ app = "job_api" /\ JobNext
    \/ app = "load_api" /\ LoadNext
    \/ Tick

Spec == Init /\ [][Next]_vars

\* SpecJob, SpecLoad: the same life of one record, one program at a time.
InitJob == Init /\ app = "job_api"
InitLoad == Init /\ app = "load_api"
NextJob == JobNext \/ Tick
NextLoad == LoadNext \/ Tick
SpecJob == InitJob /\ [][NextJob]_vars
SpecLoad == InitLoad /\ [][NextLoad]_vars

\* SpecStore: two records in each store, for the shortlist.  Job keys:
\* external id 7 (title "x", no description) and the hash of URL "u" (title
\* "y", with a description).  Load keys: origin city "a" and origin city "b".
TwoJobInputs ==
    { [id |-> Some(<<"7">>), redirect_url |-> Some(<<"u">>), description |-> NULL,
       title |-> Some(<<"x">>), location |-> Some(<<"p">>)],
      [id |-> NULL, redirect_url |-> Some(<<"u">>), description |-> Some(<<"d">>),
       title |-> Some(<<"y">>), location |-> Some(<<"p">>)] }

TwoLoadInputs ==
    { [O_City |-> Some(c), O_St |-> Some(<<"T", "X">>), D_City |-> Some(<<"b">>),
       D_St |-> NULL, O_DH |-> Some(<<"5">>), D_DH |-> PyInt(9), Distance |-> PyInt(12),
       Rate |-> Some(<<"$", "1", ",", "5", "0", "0">>), Pickup |-> Some(<<"0", "3", "/", "1", "5">>),
       Company |-> Some(<<"c">>), D2P |-> NULL] :
        c \in { <<"a">>, <<"b">> } }

\* What one fetch returns: the first record alone, or one record of each key.
StoreJobBatches ==
    {b \in SeqsUpTo(TwoJobInputs, 2) :
        /\ Len(b) >= 1
        /\ b[1].id.some
        /\ Len(b) = 2 => ~b[2].id.some}

StoreLoadBatches ==
    {b \in SeqsUpTo(TwoLoadInputs, 2) :
        /\ Len(b) >= 1
        /\ b[1].O_City = Some(<<"a">>)
        /\ Len(b) = 2 => b[2].O_City = Some(<<"b">>)}

StoreJobFilters ==
    {NoJobFilter, [NoJobFilter EXCEPT !.keywords = << <<"X">> >>]}

StoreLoadFilters ==
    {NoLoadFilter, [NoLoadFilter EXCEPT !.o_city = <<" ", "A">>]}

StoreTags == {<<>>, <<" ", "A">>}
StoreLimits == {-1, 1}

StoreJobNext ==
    \/ JobRunScrape({<<b>> : b \in StoreJobBatches}, {1})
    \/ JobRunShortlist(StoreTags, StoreJobFilters, StoreLimits)
    \/ JobMark({STATE_APPLIED})

StoreLoadNext ==
    \/ LoadRunScrape(StoreLoadBatches, {FALSE})
    \/ LoadRunShortlist(StoreTags, StoreLoadFilters, StoreLimits)
    \/ LoadMark({STATE_APPLIED})

StoreNext ==
    \/ app = "job_api" /\ StoreJobNext
    \/ app = "load_api" /\ StoreLoadNext
    \/ Tick

SpecStore == Init /\ [][StoreNext]_vars

\* SpecRank: the shortlist of SpecStore under one known filter, the empty
\* one, so that the candidates of every call can be told from the step.
RankJobNext ==
    \/ JobRunScrape({<<b>> : b \in StoreJobBatches}, {1})
    \/ JobRunShortlist(StoreTags, {NoJobFilter}, StoreLimits)
    \/ JobMark({STATE_APPLIED})

RankLoadNext ==
    \/ LoadRunScrape(StoreLoadBatches, {FALSE})
    \/ LoadRunShortlist(StoreTags, {NoLoadFilter}, StoreLimits)
    \/ LoadMark({STATE_APPLIED})

RankNext ==
    \/ app = "job_api" /\ RankJobNext
    \/ app = "load_api" /\ RankLoadNext
    \/ Tick

SpecRank == Init /\ [][RankNext]_vars

\* SpecScore: the batch scorer on a load store of up to two rows.  The first
\* load is fetched without D2P or with D2P 10, the second without D2P.
ScoreLoadInputs ==
    { [O_City |-> Some(c[1]), O_St |-> Some(<<"T", "X">>), D_City |-> Some(<<"b">>),
       D_St |-> NULL, O_DH |-> Some(<<"5">>), D_DH |-> PyInt(9), Distance |-> PyInt(12),
       Rate |-> Some(<<"$", "1", ",", "5", "0", "0">>), Pickup |-> Some(<<"0", "3", "/", "1", "5">>),
       Company |-> Some(<<"c">>), D2P |-> c[2]] :
        c \in { <<<<"a">>, NULL>>, <<<<"a">>, Some(<<"1", "0">>)>>, <<<<"b">>, NULL>> } }

\* What the sample file holds: the first load alone, or one load of each key.
ScoreLoadBatches ==
    {b \in SeqsUpTo(ScoreLoadInputs, 2) :
        /\ Len(b) >= 1
        /\ b[1].O_City = Some(<<"a">>)
        /\ Len(b) = 2 => b[2].O_City = Some(<<"b">>)}

ScoreTags == {<<>>, <<"A">>}
ScoreLimits == {-1, 1}

InitScore == Init /\ app = "load_api"

NextScore ==
    \/ LoadRunScrape(ScoreLoadBatches, {FALSE})
    \/ LoadRunShortlist({<<"A">>}, {NoLoadFilter}, ScoreLimits)
    \/ ScoreTaggedLoads(ScoreTags, ScoreLimits)
    \/ Tick

SpecScore == InitScore /\ [][NextScore]_vars

\* SpecMath: math_match_score on one Rate and one D2P.  Each case pairs the
\* payload value with the number it stands for, in thousandths (NULL: none):
\* absent, empty, unparseable, negative, zero, within the range (as text with
\* "$" and ",", with decimals, as an int), at its upper end and above it.
RateCases ==
    { [text |-> NULL, value |-> NULL],
      [text |-> Some(<<>>), value |-> NULL],
      [text |-> Some(<<"a", "b", "c">>), value |-> NULL],
      [text |-> Some(<<"-", "5">>), value |-> Some(-5000)],
      [text |-> Some(<<"0">>), value |-> Some(0)],
      [text |-> Some(<<"$", "1", ",", "5", "0", "0">>), value |-> Some(1500000)],
      [text |-> Some(<<" ", "1", "2", "3", "4", ".", "5">>), value |-> Some(1234500)],
      [text |-> PyInt(875), value |-> Some(875000)],
      [text |-> Some(<<"3", "0", "0", "0">>), value |-> Some(3000000)],
      [text |-> Some(<<"4", ",", "0", "0", "0">>), value |-> Some(4000000)] }

D2PCases ==
    { [text |-> NULL, value |-> NULL],
      [text |-> Some(<<" ">>), value |-> NULL],
      [text |-> Some(<<"x">>), value |-> NULL],
      [text |-> Some(<<"-", "3">>), value |-> Some(-3000)],
      [text |-> Some(<<"0">>), value |-> Some(0)],
      [text |-> Some(<<"6">>), value |-> Some(6000)],
      [text |-> Some(<<"1", "0">>), value |-> Some(10000)],
      [text |-> Some(<<"7", ".", "5">>), value |-> Some(7500)],
      [text |-> PyInt(40), value |-> Some(40000)],
      [text |-> Some(<<"5", "0">>), value |-> Some(50000)] }

InitMath ==
    /\ jobs = EmptyTable
    /\ loads = EmptyTable
    /\ runs = <<>>
    /\ clock = 1
    /\ last = [op |-> "init"]
    /\ agent = AgentIdle
    /\ conns = NoConns
    /\ schema = TRUE
    /\ ui = UiLoaded
    /\ app = "load_api"
    /\ \E rate \in RateCases, d2p \in D2PCases :
          probe = [rate |-> rate, d2p |-> d2p, out |-> NULL]

\* math_match_score applied to a load with this Rate and this D2P.
ComputeScore ==
    /\ probe.out = NULL
    /\ \E up \in BOOLEAN :
          probe' = [probe EXCEPT !.out =
                       Some(math_match_score([Rate |-> probe.rate.text,
                                              D2P |-> probe.d2p.text], up))]
    /\ last' = [op |-> "math_match_score"]
    /\ UNCHANGED <<jobs, loads, runs, clock, agent, conns, schema, ui, app>>

NextMath == ComputeScore

SpecMath == InitMath /\ [][NextMath]_vars

\* SpecAgent: the job store is filled by ingests, then agent_runner.py runs
\* once.  Four jobs: one without description, one without description and
\* without URL, one with a description, another one without description.
AgentJobInputs ==
    << [id |-> Some(<<"7">>), redirect_url |-> Some(<<"u">>), description |-> NULL,
        title |-> Some(<<"x">>), location |-> Some(<<"p">>)],
       [id |-> Some(<<"8">>), redirect_url |-> NULL, description |-> NULL,
        title |-> Some(<<"x">>), location |-> Some(<<"p">>)],
       [id |-> NULL, redirect_url |-> Some(<<"u">>), description |-> Some(<<"d">>),
        title |-> Some(<<"y">>), location |-> Some(<<"p">>)],
       [id |-> Some(<<"9">>), redirect_url |-> Some(<<"v">>), description |-> NULL,
        title |-> Some(<<"z">>), location |-> Some(<<"p">>)] >>

\* What one fetch returns: the first n of these jobs.
AgentJobBatches == {SubSeq(AgentJobInputs, 1, n) : n \in 1..4}

AgentArgs ==
    { [tag |-> <<"A">>, days |-> 1, location |-> <<>>, keywords |-> <<>>,
       replace |-> FALSE, limit |-> limit, overwrite |-> overwrite] :
        limit \in {2, 4}, overwrite \in BOOLEAN }

\* fetch_description fails or returns the text "s"; the scoring collaborator
\* fails, or replies "7.5" or "n/a".
AgentFetches == {Failure, Reply(<<"s">>)}
AgentReplies == {Failure, Reply(<<"7", ".", "5">>), Reply(<<"n", "/", "a">>)}

InitAgent == Init /\ app = "job_api"

NextAgent ==
    \/ agent.pc = "idle" /\ JobRunScrape({<<b>> : b \in AgentJobBatches}, {1})
    \/ AgentStart(AgentArgs)
    \/ AgentStep(AgentFetches, AgentReplies)
    \/ AgentFinish

SpecAgent == InitAgent /\ [][NextAgent]_vars

\* SpecFetch: paginated ingests of the job store, each of which may fail on
\* one of its pages.
MaxPages == 2

NextFetch ==
    \/ JobRunScrape(JobFeeds(TwoJobInputs), 1..MaxPages)
    \/ JobRunScrapeFails(JobFeeds(TwoJobInputs), 1..MaxPages)
    \/ Tick

SpecFetch == InitJob /\ [][NextFetch]_vars

\* A core operation other than the ingest called on a store whose tables do
\* not exist: ensure_columns reads no column, its ALTER TABLE statements fail
\* and are swallowed, and the first statement on the table raises
\* sqlite3.OperationalError (no such table).  Nothing is created.
JobTableOps == {"run_shortlist", "query_jobs", "update_description", "update_match_score"}
LoadTableOps == {"run_shortlist", "query_loads", "score_tagged_loads"}

CallOnMissingTable(Ops) ==
    /\ ~schema
    /\ \E op \in Ops : last' = [op |-> op, raised |-> "OperationalError"]
    /\ UNCHANGED <<jobs, loads, runs, clock, probe, agent, conns, schema, ui, app>>

\* SpecFresh: the operations on a store location that holds no table yet.
InitFresh ==
    /\ jobs = EmptyTable
    /\ loads = EmptyTable
    /\ runs = <<>>
    /\ clock = 1
    /\ last = [op |-> "init"]
    /\ agent = AgentIdle
    /\ conns = NoConns
    /\ schema = FALSE
    /\ ui = UiLoaded
    /\ probe = NULL
    /\ app \in {"job_api", "load_api"}

FreshJobNext ==
    \/ JobRunScrape(SeqsUpTo({<<j>> : j \in OneJobInputs}, 1), {1})
    \/ JobRunShortlist({<<"A">>}, {NoJobFilter}, {-1})
    \/ JobUpdateDescription(JobKeys, DescribeTexts, DescribeSources)
    \/ JobUpdateMatchScore(JobKeys, JobScores)
    \/ CallOnMissingTable(JobTableOps)

FreshLoadNext ==
    \/ LoadRunScrape(SeqsUpTo(OneLoadInputs, 1), BOOLEAN)
    \/ LoadRunShortlist({<<"A">>}, {NoLoadFilter}, {-1})
    \/ ScoreTaggedLoads({<<"A">>}, {-1})
    \/ CallOnMissingTable(LoadTableOps)

NextFresh ==
    \/ app = "job_api" /\ FreshJobNext
    \/ app = "load_api" /\ FreshLoadNext
    \/ Tick

SpecFresh == InitFresh /\ [][NextFresh]_vars

\* SpecPickup: normalize_pickup on bare month/day texts, on a day of a common
\* year and on a day of a leap year.
PickupMonths == 1..12
PickupDays == {1, 15, 28, 29, 30, 31}
PickupTodays == {[y |-> 2026, m |-> 3, d |-> 14], [y |-> 2028, m |-> 2, d |-> 10]}

\* "MM/DD" with both fields zero-padded.
MonthDayText(m, d) == Pad(NatStr(m), 2) \o <<"/">> \o Pad(NatStr(d), 2)

InitPickup ==
    /\ jobs = EmptyTable
    /\ loads = EmptyTable
    /\ runs = <<>>
    /\ clock = 1
    /\ last = [op |-> "init"]
    /\ agent = AgentIdle
    /\ conns = NoConns
    /\ schema = TRUE
    /\ ui = UiLoaded
    /\ probe \in [m : PickupMonths, d : PickupDays, today : PickupTodays]
    /\ app = "load_api"

NormalizePickup ==
    /\ "out" \notin DOMAIN probe
    /\ probe' = [m |-> probe.m, d |-> probe.d, today |-> probe.today,
                 out |-> normalize_pickup(Some(MonthDayText(probe.m, probe.d)), probe.today)]
    /\ last' = [op |-> "normalize_pickup"]
    /\ UNCHANGED <<jobs, loads, runs, clock, agent, conns, schema, ui, app>>

NextPickup == NormalizePickup \/ Tick

SpecPickup == InitPickup /\ [][NextPickup]_vars

\* SpecQuery: queries on a load store of up to two rows, tagged, scored and
\* set aside in every combination.
NoLoadQuery ==
    [tag |-> NULL, date |-> NULL, o_city |-> <<>>, o_st |-> <<>>, d_city |-> <<>>,
     d_st |-> <<>>, o_dh_max |-> NULL, d_dh_max |-> NULL, states |-> {},
     only_unscored |-> FALSE]

LoadQueries ==
    { NoLoadQuery,
      [NoLoadQuery EXCEPT !.tag = Some(<<"A">>), !.states = {STATE_READY}],
      [NoLoadQuery EXCEPT !.only_unscored = TRUE, !.o_city = <<" ", "B">>,
                          !.o_dh_max = Some(5)] }

QueryLimits == {-1, 1}
QueryOffsets == {0, 1}

\* What the sample file holds: the first load with its D2P, alone or followed
\* by the second load.
QueryBatches == {b \in ScoreLoadBatches : b[1].D2P # NULL}

NextQuery ==
    \/ LoadRunScrape(QueryBatches, {FALSE})
    \/ LoadRunShortlist({<<"A">>}, {NoLoadFilter}, {1})
    \/ ScoreTaggedLoads({<<"A">>}, {-1})
    \/ LoadMark({STATE_APPLIED})
    \/ LoadQuery(LoadQueries, QueryLimits, QueryOffsets)

SpecQuery == InitLoad /\ [][NextQuery]_vars

\* SpecParse: parse_score on every reply of up to three characters over a
\* minus sign, two digits, the decimal point and a letter.
ScoreChars == {"-", "1", "9", ".", "x"}
ScoreTexts == SeqsUpTo(ScoreChars, 3)

InitParse ==
    /\ jobs = EmptyTable
    /\ loads = EmptyTable
    /\ runs = <<>>
    /\ clock = 1
    /\ last = [op |-> "init"]
    /\ agent = AgentIdle
    /\ conns = NoConns
    /\ schema = TRUE
    /\ ui = UiLoaded
    /\ probe \in [text : ScoreTexts]
    /\ app = "job_api"

ParseScore ==
    /\ "out" \notin DOMAIN probe
    /\ probe' = [text |-> probe.text, out |-> parse_score(probe.text)]
    /\ last' = [op |-> "parse_score"]
    /\ UNCHANGED <<jobs, loads, runs, clock, agent, conns, schema, ui, app>>

NextParse == ParseScore \/ Tick

SpecParse == InitParse /\ [][NextParse]_vars

\* SpecProgress: a load store of up to two rows is filled, tagged and partly
\* scored; then the scoring loop runs alone.  The loop keeps calling: weak
\* fairness on its call.  The loads are those of SpecScore without rate and
\* without days to pickup: their score is 0.0, which is a score.
ProgressBatches ==
    {[i \in DOMAIN b |-> [b[i] EXCEPT !.Rate = NULL, !.D2P = NULL]] : b \in ScoreLoadBatches}

ProgressSetup ==
    \/ LoadRunScrape(ProgressBatches, {FALSE})
    \/ LoadRunShortlist({<<"A">>}, {NoLoadFilter}, ScoreLimits)
    \/ ScoreTaggedLoads({<<"A">>}, {1})
    \/ Tick

NextProgress ==
    \/ probe = NULL /\ ProgressSetup
    \/ StartScoreLoop({<<"A">>}, {1, 2})
    \/ ScoreLoopCall

SpecProgress == InitLoad /\ [][NextProgress]_vars /\ WF_vars(ScoreLoopCall)

\* SpecUi: the page of the load UI under clicks on btn-shortlist, ticks of the
\* auto-refresh timer, changes of the interval and answers to the requests of
\* the run in flight, in every order.
\*
\* The values the auto_refresh select offers, 600 left out.
RefreshChoices == {0, 20, 60}

NextUi ==
    \/ ClickShortlist
    \/ RefreshTick
    \/ ChangeAutoRefresh(RefreshChoices)
    \/ RunAnswered

SpecUi == InitLoad /\ [][NextUi]_vars

\* SpecPages: paginated ingests whose source returns a first page of zero, one
\* or two records and later pages of zero or one, an empty page possibly
\* followed by more records.
PageCap == 3
PageFeeds ==
    LET a == CHOOSE j \in TwoJobInputs : j.id.some
        b == CHOOSE j \in TwoJobInputs : ~j.id.some
    IN {feed \in SeqsUpTo({<<>>, <<a>>, <<a, b>>}, PageCap) :
           \A i \in 1..Len(feed) : i > 1 => Len(feed[i]) < 2}

NextPages ==
    \/ JobRunScrapePages(PageFeeds, 0..PageCap)
    \/ Tick

SpecPages == InitJob /\ [][NextPages]_vars

\* SpecNorm: the normalizers of load_api.py applied to one value of any JSON
\* type.
NormTexts ==
    { <<>>, <<" ">>, <<"x">>, <<"5">>, <<"1", ",", "5">>, <<"$", "7">>, <<"1", ".", "5">>,
      <<"-", "2">>, <<"t", "o", "d", "a", "y">>, <<"0", "3", "/", "1", "5">>,
      <<"0", "2", "/", "3", "0">>, <<"1", "3", "/", "0", "1">>,
      <<"0", "3", "/", "1", "5", "/", "2", "6">>,
      <<"2", "0", "2", "6", "-", "0", "3", "-", "1", "5">>, <<"/">> }

NormValues ==
    {NULL} \cup {Some(t) : t \in NormTexts}
    \cup {PyInt(n) : n \in {-1, 0, 315}}
    \cup {PyBool(b) : b \in BOOLEAN}
    \cup {PyOther(<<"1", ".", "5">>, TRUE), PyOther(<<"[", "]">>, FALSE),
          PyOther(<<"{", "}">>, FALSE)}

Normalizers ==
    {"normalize_pickup", "normalize_date_filter", "to_int", "parse_rate", "parse_d2p"}

\* The call fn(value) made today.
NormCall(fn, value, today) ==
    CASE fn = "normalize_pickup" -> normalize_pickup_call(value, today)
      [] fn = "normalize_date_filter" -> normalize_date_filter_call(value, today)
      [] fn = "to_int" -> Returned(to_int(value))
      [] fn = "parse_rate" -> Returned(parse_rate(value))
      [] fn = "parse_d2p" -> Returned(parse_d2p(value))

InitNorm ==
    /\ jobs = EmptyTable
    /\ loads = EmptyTable
    /\ runs = <<>>
    /\ clock = 1
    /\ last = [op |-> "init"]
    /\ agent = AgentIdle
    /\ conns = NoConns
    /\ schema = TRUE
    /\ ui = UiLoaded
    /\ probe \in [value : NormValues]
    /\ app = "load_api"

Normalize ==
    /\ "value" \in DOMAIN probe
    /\ \E fn \in Normalizers :
          /\ probe' = [value |-> probe.value, fn |-> fn,
                       out |-> NormCall(fn, probe.value, Today(clock))]
          /\ last' = [op |-> fn]
    /\ UNCHANGED <<jobs, loads, runs, clock, agent, conns, schema, ui, app>>

NextNorm == Normalize \/ Tick

SpecNorm == InitNorm /\ [][NextNorm]_vars

\* SpecOverwrite: ingests with and without overwrite on a load store of up to
\* two keys, between shortlist and scoring calls.  A sample file holds one or
\* two records, of the same key or of two keys.
OverwriteBatches == SeqsUpTo(TwoLoadInputs, 2) \ {<<>>}

NextOverwrite ==
    \/ LoadRunScrape(OverwriteBatches, BOOLEAN)
    \/ LoadRunShortlist({<<"A">>}, {NoLoadFilter}, {-1})
    \/ ScoreTaggedLoads({<<"A">>}, {-1})
    \/ Tick

SpecOverwrite == InitLoad /\ [][NextOverwrite]_vars

\* SpecAbort: ingests of the load store, with and without overwrite, that
\* complete or fail on a record of the batch.
NextAbort ==
    \/ LoadRunScrape(OverwriteBatches, BOOLEAN)
    \/ LoadRunScrapeFails({0, 1}, BOOLEAN)
    \/ LoadRunShortlist({<<"A">>}, {NoLoadFilter}, {-1})
    \/ Tick

SpecAbort == InitLoad /\ [][NextAbort]_vars

\* SpecAudit: ingests of both programs whose batches may hold one key twice,
\* overwrite ingests and failing fetches included, between the other writes.
AuditFeeds ==
    LET a == CHOOSE j \in TwoJobInputs : j.id.some
    IN SeqsUpTo({<<a>>, <<a, a>>}, 1)

AuditBatches == {b \in OverwriteBatches : b[1].O_City = Some(<<"a">>)}

AuditJobNext ==
    \/ JobRunScrape(AuditFeeds, {1, 2})
    \/ JobRunScrapeFails(AuditFeeds, {1, 2})
    \/ JobRunShortlist({<<"A">>}, {NoJobFilter}, {-1})
    \/ JobUpdateMatchScore(JobKeys, JobScores)
    \/ JobUpdateDescription(JobKeys, {<<"d">>}, {NULL})
    \/ JobMark({STATE_APPLIED})

AuditLoadNext ==
    \/ LoadRunScrape(AuditBatches, BOOLEAN)
    \/ LoadRunShortlist({<<"A">>}, {NoLoadFilter}, {-1})
    \/ ScoreTaggedLoads({<<"A">>}, {-1})
    \/ LoadMark({STATE_APPLIED})

NextAudit ==
    \/ app = "job_api" /\ AuditJobNext
    \/ app = "load_api" /\ AuditLoadNext
    \/ Tick

SpecAudit == Init /\ [][NextAudit]_vars

\* SpecOverlap: two ingests of one record each, on connections of their own,
\* their statements interleaved in every order.
NextOverlap ==
    \/ OverlapBegin(TwoLoadInputs)
    \/ OverlapSelect
    \/ OverlapWrite
    \/ OverlapBusy
    \/ OverlapCommit
    \/ Tick

SpecOverlap == InitLoad /\ [][NextOverlap]_vars

\* SpecKey: key derivation on pairs of payloads.  The load payloads differ in
\* O-City/O-St (with and without the separator inside a value), in Rate
\* (absent, empty, zero, a number and the same number as text) and in D2P,
\* which is not a discriminating field; the job payloads in id and
\* redirect_url (absent, empty, padded).
KeyFields ==
    {"O_City", "O_St", "D_City", "D_St", "Pickup", "Company", "Rate", "Distance"}

KeyLoadInputs ==
    { [O_City |-> Some(c[1]), O_St |-> Some(c[2]), D_City |-> Some(<<"b">>),
       D_St |-> NULL, O_DH |-> NULL, D_DH |-> NULL, Distance |-> PyInt(12),
       Rate |-> rate, Pickup |-> Some(<<"T", "O", "D", "A", "Y">>),
       Company |-> Some(<<"c">>), D2P |-> d2p] :
        c \in { <<(<<"a">>), (<<"T">>)>>, <<(<<"a", "|", "T">>), (<<"X">>)>>,
                <<(<<"a">>), (<<"T", "|", "X">>)>> },
        rate \in {NULL, Some(<<>>), PyInt(0), PyInt(15), Some(<<"1", "5">>)},
        d2p \in {NULL, Some(<<"9">>)} }

KeyJobInputs ==
    { [id |-> i, redirect_url |-> u, description |-> NULL,
       title |-> Some(<<"x">>), location |-> Some(<<"p">>)] :
        i \in {NULL, Some(<<>>), Some(<<"7">>)},
        u \in {NULL, Some(<<>>), Some(<<"u">>), Some(<<" ", "u">>), Some(<<"v">>)} }

InitKey ==
    /\ jobs = EmptyTable
    /\ loads = EmptyTable
    /\ runs = <<>>
    /\ clock = 1
    /\ last = [op |-> "init"]
    /\ agent = AgentIdle
    /\ conns = NoConns
    /\ schema = TRUE
    /\ ui = UiLoaded
    /\ \/ app = "load_api" /\ \E a \in KeyLoadInputs, b \in KeyLoadInputs :
              probe = [a |-> a, b |-> b, out |-> NULL]
       \/ app = "job_api" /\ \E a \in KeyJobInputs, b \in KeyJobInputs :
              probe = [a |-> a, b |-> b, out |-> NULL]

\* stable_load_key applied to both payloads: the hashed text and the key.
DeriveLoadKeys ==
    /\ app = "load_api"
    /\ probe.out = NULL
    /\ probe' = [probe EXCEPT !.out =
                    Some([raw_a |-> LoadKeyRaw(probe.a), raw_b |-> LoadKeyRaw(probe.b),
                          key_a |-> stable_load_key(probe.a),
                          key_b |-> stable_load_key(probe.b)])]
    /\ last' = [op |-> "stable_load_key"]
    /\ UNCHANGED <<jobs, loads, runs, clock, agent, conns, schema, ui, app>>

\* stable_job_key applied to both payloads.
DeriveJobKeys ==
    /\ app = "job_api"
    /\ probe.out = NULL
    /\ probe' = [probe EXCEPT !.out =
                    Some([key_a |-> stable_job_key(probe.a),
                          key_b |-> stable_job_key(probe.b)])]
    /\ last' = [op |-> "stable_job_key"]
    /\ UNCHANGED <<jobs, loads, runs, clock, agent, conns, schema, ui, app>>

NextKey == DeriveLoadKeys \/ DeriveJobKeys

SpecKey == InitKey /\ [][NextKey]_vars

\* ------------------------------------------------------------------ claims
\* Payloads the properties quantify over: every payload of the specifications.
AllJobInputs == OneJobInputs \cup TwoJobInputs
AllLoadInputs == OneLoadInputs \cup TwoLoadInputs

ProtectedStates == {STATE_APPLIED, STATE_IGNORED}

\* The properties on upserts are stated on every reachable store and for an
\* upsert made now: the clock can advance to any later time with the store as
\* it is, so upserts at later times are covered by the later states.

\* C1: in every reachable store, upserting any payload leaves the state of
\* every APPLIED or IGNORED row as it is, in both variants (upsert_job and
\* upsert_load); by induction this covers any number of upserts.
C1_ProtectedUnderUpsert ==
    /\ \A k \in DOMAIN jobs, j \in AllJobInputs :
          jobs[k].state \in ProtectedStates
          => upsert_job(jobs, j, clock).tbl[k].state = jobs[k].state
    /\ \A k \in DOMAIN loads, l \in AllLoadInputs :
          loads[k].state \in ProtectedStates
          => upsert_load(loads, l, clock).tbl[k].state = loads[k].state

\* C1 witness: an ingest has just updated a job row that is IGNORED, with a
\* payload that does carry a description.
C1_Witness ==
    /\ last.op = "run_scrape"
    /\ last.ret.updated = 1
    /\ \E k \in DOMAIN jobs :
          /\ jobs[k].state = STATE_IGNORED
          /\ jobs[k].description_text = Some(<<"d">>)
          /\ jobs[k].first_seen_at < jobs[k].last_seen_at

\* C2: every run_scrape step, with overwrite False or True, leaves each key
\* whose row is APPLIED or IGNORED before the step, and which is stored after
\* it, with that same state.
C2_IngestKeepsProtected ==
    [][last'.op = "run_scrape"
       => /\ \A k \in DOMAIN jobs \cap DOMAIN jobs' :
                jobs[k].state \in ProtectedStates => jobs'[k].state = jobs[k].state
          /\ \A k \in DOMAIN loads \cap DOMAIN loads' :
                loads[k].state \in ProtectedStates => loads'[k].state = loads[k].state]_vars

\* Position of a state on the path NEW -> DESC_READY/READY -> SCORED.
StateRank(state) ==
    IF state = STATE_NEW THEN 0
    ELSE IF state \in {STATE_DESC_READY, STATE_READY} THEN 1
    ELSE 2

\* A move from state s to state t is forward, sideways into APPLIED/IGNORED,
\* or no move; never backward and never out of APPLIED/IGNORED.
MonotoneMove(s, t) ==
    IF s \in ProtectedStates THEN t = s
    ELSE t \in ProtectedStates \/ StateRank(t) >= StateRank(s)

\* C3: every step of every operation moves the state of every record that is
\* stored before and after the step monotonically.
C3_StateMonotone ==
    [][/\ \A k \in DOMAIN jobs \cap DOMAIN jobs' : MonotoneMove(jobs[k].state, jobs'[k].state)
       /\ \A k \in DOMAIN loads \cap DOMAIN loads' :
             MonotoneMove(loads[k].state, loads'[k].state)]_vars

\* The row with its last_seen_at column set aside.
SetAside(row, cols) == [c \in DOMAIN row \ cols |-> row[c]]

\* The store of the other program stays empty, so each half of a property on
\* upserts is checked in the states of its own program.
\* Upserting job payload j at time n1 and again at time n2 leaves the columns
\* of the row outside `cols` as the first upsert left them.
JobTwiceSame(j, n1, n2, cols) ==
    LET key == stable_job_key(j)
        once == upsert_job(jobs, j, n1).tbl
        twice == upsert_job(once, j, n2)
    IN /\ twice.outcome = "updated"
       /\ SetAside(twice.tbl[key], cols) = SetAside(once[key], cols)

LoadTwiceSame(l, n1, n2, cols) ==
    LET key == stable_load_key(l)
        once == upsert_load(loads, l, n1).tbl
        twice == upsert_load(once, l, n2)
    IN /\ twice.outcome = "updated"
       /\ SetAside(twice.tbl[key], cols) = SetAside(once[key], cols)

\* C4 as stated: in every reachable store, upserting any payload now and then
\* the same payload again, now or later, leaves the row as the first upsert left it, last_seen_at
\* alone excepted.
C4_IdempotentUpsertOriginal ==
    /\ app = "job_api"
       => \A j \in AllJobInputs, n2 \in clock..MaxTime :
             JobTwiceSame(j, clock, n2, {"last_seen_at"})
    /\ app = "load_api"
       => \A l \in AllLoadInputs, n2 \in clock..MaxTime :
             LoadTwiceSame(l, clock, n2, {"last_seen_at"})

\* C4 amended: the second upsert of the same payload leaves state,
\* first_seen_at, match_score, description_text, description_source and every
\* other column as the first left them; last_seen_at may differ, and so may
\* the Pickup column of a load, which is normalised against the ingest date.
C4_IdempotentUpsert ==
    /\ app = "job_api"
       => \A j \in AllJobInputs, n2 \in clock..MaxTime :
             JobTwiceSame(j, clock, n2, {"last_seen_at"})
    /\ app = "load_api"
       => \A l \in AllLoadInputs, n2 \in clock..MaxTime :
             LoadTwiceSame(l, clock, n2, {"last_seen_at", "Pickup"})

\* C4 witness: a load ingested on one day has been ingested again, with a
\* payload that this row is the result of, on a later day.
C4_Witness ==
    /\ last.op = "run_scrape"
    /\ ~last.overwrite
    /\ last.ret.updated = 1
    /\ \E l \in AllLoadInputs :
          /\ stable_load_key(l) \in DOMAIN loads
          /\ loads[stable_load_key(l)].first_seen_at < clock
          /\ upsert_load(loads, l, clock).tbl = loads

\* C5 as stated: a stored non-empty description survives every upsert_job and
\* update_description, and an upsert whose payload description is non-empty,
\* onto a row whose description is empty, stores that description.
C5_FirstWriterWinsOriginal ==
    \A k \in DOMAIN jobs :
       /\ \A j \in AllJobInputs :
             stable_job_key(j) = k
             => LET after == upsert_job(jobs, j, clock).tbl[k]
                IN /\ Truthy(jobs[k].description_text)
                      => after.description_text = jobs[k].description_text
                   /\ (~Truthy(jobs[k].description_text) /\ Truthy(j.description))
                      => after.description_text = j.description
       /\ \A text \in DescribeTexts, source \in DescribeSources :
             Truthy(jobs[k].description_text)
             => update_description(jobs, k, text, source).tbl[k].description_text
                = jobs[k].description_text

\* C5 amended: a stored non-empty description survives every upsert_job and
\* update_description, and an upsert whose payload description has text
\* besides whitespace, onto a row whose description is empty, stores that
\* description with the surrounding whitespace stripped.
C5_FirstWriterWins ==
    \A k \in DOMAIN jobs :
       /\ \A j \in AllJobInputs :
             stable_job_key(j) = k
             => LET after == upsert_job(jobs, j, clock).tbl[k]
                IN /\ Truthy(jobs[k].description_text)
                      => after.description_text = jobs[k].description_text
                   /\ (/\ ~Truthy(jobs[k].description_text)
                       /\ j.description.some
                       /\ Strip(j.description.val) # <<>>)
                      => after.description_text = Some(Strip(j.description.val))
       /\ \A text \in DescribeTexts, source \in DescribeSources :
             Truthy(jobs[k].description_text)
             => update_description(jobs, k, text, source).tbl[k].description_text
                = jobs[k].description_text

\* C5 witness: an ingest has updated a row whose description was the empty
\* text written by update_description, and the row now holds the payload's
\* description " d" as "d".
C5_Witness ==
    /\ last.op = "run_scrape"
    /\ last.ret.updated = 1
    /\ \E k \in DOMAIN jobs :
          /\ jobs[k].description_text = Some(<<"d">>)
          /\ jobs[k].description_source = Some("scrape")

\* C6: description_source is written only together with the row's first
\* non-empty description: (a) an update_description or upsert_job that supplies
\* an empty description leaves description_source as it is, (b) so does either
\* operation on a row that already holds a non-empty description, and (c) a
\* non-null description_source names the origin of the stored text (ingested
\* descriptions read "d", posted ones "s").
C6_DescriptionSource ==
    \A k \in DOMAIN jobs :
       /\ \A source \in DescribeSources :
             update_description(jobs, k, <<>>, source).tbl[k].description_source
             = jobs[k].description_source
       /\ \A j \in AllJobInputs :
             (stable_job_key(j) = k /\ ~Truthy(j.description))
             => upsert_job(jobs, j, clock).tbl[k].description_source
                = jobs[k].description_source
       /\ Truthy(jobs[k].description_text)
          => /\ \A text \in DescribeTexts, source \in DescribeSources :
                   update_description(jobs, k, text, source).tbl[k].description_source
                   = jobs[k].description_source
             /\ \A j \in AllJobInputs :
                   stable_job_key(j) = k
                   => upsert_job(jobs, j, clock).tbl[k].description_source
                      = jobs[k].description_source
       /\ jobs[k].description_source = Some("api")
          => jobs[k].description_text = Some(<<"d">>)
       /\ jobs[k].description_source = Some("scrape")
          => jobs[k].description_text = Some(<<"s">>)

\* The columns an upsert onto an existing row must leave alone.
FrameColumns == {"match_score", "first_seen_at", "shortlist_tag", "shortlisted_at"}

SameFrame(before, after) == \A c \in FrameColumns : after[c] = before[c]

\* C7: (a) in every reachable store an upsert that hits an existing row leaves
\* match_score, first_seen_at, shortlist_tag and shortlisted_at as they are
\* and sets last_seen_at to `now`; (b) no step other than update_match_score
\* or score_tagged_loads changes the match_score of a record.
C7_UpsertFrame ==
    [][/\ \A j \in AllJobInputs :
             stable_job_key(j) \in DOMAIN jobs
             => LET k == stable_job_key(j)
                    after == upsert_job(jobs, j, clock).tbl[k]
                IN SameFrame(jobs[k], after) /\ after.last_seen_at = clock
       /\ \A l \in AllLoadInputs :
             stable_load_key(l) \in DOMAIN loads
             => LET k == stable_load_key(l)
                    after == upsert_load(loads, l, clock).tbl[k]
                IN SameFrame(loads[k], after) /\ after.last_seen_at = clock
       /\ last'.op \notin {"update_match_score", "score_tagged_loads"}
          => /\ \A k \in DOMAIN jobs \cap DOMAIN jobs' :
                   jobs'[k].match_score = jobs[k].match_score
             /\ \A k \in DOMAIN loads \cap DOMAIN loads' :
                   loads'[k].match_score = loads[k].match_score]_vars

\* Two load payloads agree on every discriminating field.
SameLoadDiscriminator(a, b) == \A f \in KeyFields : a[f] = b[f]

\* Two job payloads agree on the discriminating field: the external id when
\* there is one, the redirect URL otherwise.
SameJobDiscriminator(a, b) ==
    IF Truthy(a.id) \/ Truthy(b.id)
    THEN a.id = b.id
    ELSE a.redirect_url = b.redirect_url

\* Upserting payload a and then payload b into the job store: the second
\* upsert reports "updated", addresses the key of the first, and adds no row.
JobSecondCollapses(a, b, n2) ==
    LET first == upsert_job(jobs, a, clock)
        second == upsert_job(first.tbl, b, n2)
    IN /\ second.outcome = "updated"
       /\ stable_job_key(b) = stable_job_key(a)
       /\ DOMAIN second.tbl = DOMAIN first.tbl

LoadSecondCollapses(a, b, n2) ==
    LET first == upsert_load(loads, a, clock)
        second == upsert_load(first.tbl, b, n2)
    IN /\ second.outcome = "updated"
       /\ stable_load_key(b) = stable_load_key(a)
       /\ DOMAIN second.tbl = DOMAIN first.tbl

\* C8: in every reachable store, upserting a record and then a record with
\* the same discriminating fields (whatever its other fields, whenever it is
\* fetched) reports "updated" for the second, under the key of the first, and
\* leaves the set of rows as the first upsert left it.
C8_RepeatedFetchesCollapse ==
    /\ app = "job_api"
       => \A a \in AllJobInputs, b \in AllJobInputs, n2 \in clock..MaxTime :
             SameJobDiscriminator(a, b) => JobSecondCollapses(a, b, n2)
    /\ app = "load_api"
       => \A a \in AllLoadInputs, b \in AllLoadInputs, n2 \in clock..MaxTime :
             SameLoadDiscriminator(a, b) => LoadSecondCollapses(a, b, n2)

\* C8 witness: a second fetch of a stored load, on a later day and with
\* another D2P, has just been ingested: it was counted as updated and the
\* store still holds the one row, now carrying the D2P of the second fetch.
C8_Witness ==
    /\ last.op = "run_scrape"
    /\ last.ret.updated = 1
    /\ Cardinality(DOMAIN loads) = 1
    /\ \E k \in DOMAIN loads :
          /\ loads[k].first_seen_at < loads[k].last_seen_at
          /\ loads[k].D2P = Some(<<"1", "0">>)

\* C9: two load payloads that differ in a discriminating field get different
\* hashed texts and different keys, and two job payloads without an external
\* id that differ in redirect_url get different keys.
C9_KeyDistinct ==
    probe.out.some
    => /\ app = "load_api"
          => (~SameLoadDiscriminator(probe.a, probe.b)
              => /\ probe.out.val.raw_a # probe.out.val.raw_b
                 /\ probe.out.val.key_a # probe.out.val.key_b)
       /\ app = "job_api"
          => ((/\ ~probe.a.id.some
               /\ ~probe.b.id.some
               /\ probe.a.redirect_url # probe.b.redirect_url)
              => probe.out.val.key_a # probe.out.val.key_b)

\* The limits of a replacing shortlist call: none, fewer than the rows of the
\* store, as many.
ReplaceLimits == {0, 1, 2}

\* After a shortlist call that returned tag T on filters that select the rows
\* matching: every row carrying T matches, at most limit rows carry T, and
\* every row of before that carried T and does not match carries no tag and no
\* tagging time.
ShortlistReplaced(before, after, T, matching, limit) ==
    /\ \A k \in DOMAIN after :
          after[k].shortlist_tag = Some(T)
          => k \in matching /\ after[k].state \notin ProtectedStates
    /\ Cardinality({k \in DOMAIN after : after[k].shortlist_tag = Some(T)}) <= limit
    /\ \A k \in DOMAIN before :
          (before[k].shortlist_tag = Some(T) /\ k \notin matching)
          => /\ k \in DOMAIN after
             /\ after[k].shortlist_tag = NULL
             /\ after[k].shortlisted_at = NULL

\* C10: in every reachable store, run_shortlist with replace=True, any tag,
\* any filters and a limit L >= 0, whichever rows its query returns, leaves
\* every row carrying the returned tag T matching the filters and outside
\* APPLIED/IGNORED, at most L rows carrying T, and every row that carried T
\* before and does not match the filters without tag and tagging time.
C10_ShortlistReplace ==
    /\ app = "job_api"
       => \A rawtag \in StoreTags, f \in StoreJobFilters, limit \in ReplaceLimits :
             \A K \in JobShortlistRows(jobs, rawtag, f, TRUE, limit, clock) :
                LET r == job_run_shortlist(jobs, rawtag, f, TRUE, limit, clock, K)
                    matching == {k \in DOMAIN r.tbl : JobShortlistWhere(r.tbl[k], f, clock)}
                IN ShortlistReplaced(jobs, r.tbl, r.ret.tag, matching, limit)
    /\ app = "load_api"
       => \A rawtag \in StoreTags, f \in StoreLoadFilters, limit \in ReplaceLimits :
             \A K \in LoadShortlistRows(loads, rawtag, f, TRUE, limit, clock) :
                LET r == load_run_shortlist(loads, rawtag, f, TRUE, limit, clock, K)
                    matching == {k \in DOMAIN r.tbl :
                                    LoadShortlistWhere(r.tbl[k], f, Today(clock))}
                IN ShortlistReplaced(loads, r.tbl, r.ret.tag, matching, limit)

\* C10 witness: a replacing shortlist call with limit 1 has just returned on a
\* load store of two rows, one of them APPLIED: it marked one row, one row
\* carries the tag "A", and the APPLIED row carries no tag.
C10_Witness ==
    /\ last.op = "run_shortlist"
    /\ last.replace
    /\ last.limit = 1
    /\ last.ret = [tag |-> <<"A">>, marked |-> 1, total |-> 1]
    /\ Cardinality(DOMAIN loads) = 2
    /\ \E k1 \in DOMAIN loads, k2 \in DOMAIN loads :
          /\ loads[k1].shortlist_tag = Some(<<"A">>)
          /\ loads[k1].shortlisted_at = Some(clock)
          /\ loads[k2].state = STATE_APPLIED
          /\ loads[k2].shortlist_tag = NULL
          /\ loads[k2].shortlisted_at = NULL

\* C11: in every reachable store, run_shortlist with any tag, filters, limit
\* (none included) and replace value, whichever rows its query returns,
\* selects no row that is APPLIED or IGNORED, and every row whose tag or
\* tagging time it has changed is outside APPLIED/IGNORED, unless replace
\* cleared the tag the row carried.
C11_ShortlistSkipsTerminal ==
    /\ app = "job_api"
       => \A rawtag \in StoreTags, f \in StoreJobFilters, replace \in BOOLEAN,
             limit \in StoreLimits :
             \A K \in JobShortlistRows(jobs, rawtag, f, replace, limit, clock) :
                LET r == job_run_shortlist(jobs, rawtag, f, replace, limit, clock, K)
                IN /\ \A k \in K : jobs[k].state \notin ProtectedStates
                   /\ \A k \in DOMAIN jobs :
                         (jobs[k].state \in ProtectedStates
                          /\ r.tbl[k].shortlist_tag # jobs[k].shortlist_tag)
                         => r.tbl[k].shortlist_tag = NULL /\ replace
    /\ app = "load_api"
       => \A rawtag \in StoreTags, f \in StoreLoadFilters, replace \in BOOLEAN,
             limit \in StoreLimits :
             \A K \in LoadShortlistRows(loads, rawtag, f, replace, limit, clock) :
                LET r == load_run_shortlist(loads, rawtag, f, replace, limit, clock, K)
                IN /\ \A k \in K : loads[k].state \notin ProtectedStates
                   /\ \A k \in DOMAIN loads :
                         (loads[k].state \in ProtectedStates
                          /\ r.tbl[k].shortlist_tag # loads[k].shortlist_tag)
                         => r.tbl[k].shortlist_tag = NULL /\ replace

\* C11 witness: a shortlist call without replace and without limit has just
\* returned on a job store of two rows that both match its filters; it
\* stamped the one that is not APPLIED, and the APPLIED one carries no tag.
C11_Witness ==
    /\ last.op = "run_shortlist"
    /\ ~last.replace
    /\ last.limit = -1
    /\ last.ret.marked = 1
    /\ Cardinality(DOMAIN jobs) = 2
    /\ \E k1 \in DOMAIN jobs, k2 \in DOMAIN jobs :
          /\ jobs[k1].state = STATE_APPLIED
          /\ jobs[k1].shortlist_tag = NULL
          /\ jobs[k2].state # STATE_APPLIED
          /\ jobs[k2].shortlist_tag = Some(last.ret.tag)
          /\ jobs[k2].shortlisted_at = Some(clock)

\* The counts of a shortlist call that turned table `before` into r.tbl and
\* returned r.ret at time now:
\*  - marked is at least the number of rows that now carry the tag and did
\*    not, or not with this time, before; at most the number of rows tagged
\*    at this time; and within the limit when there is one;
\*  - total is the number of rows that carry the tag afterwards;
\*  - with replace, total = marked; without, every row that carried the tag
\*    still does and total is at least their number.
ShortlistCounts(before, r, replace, limit, now) ==
    LET T == r.ret.tag
        carried == {k \in DOMAIN before : before[k].shortlist_tag = Some(T)}
        carry == {k \in DOMAIN r.tbl : r.tbl[k].shortlist_tag = Some(T)}
        now_tagged == {k \in carry : r.tbl[k].shortlisted_at = Some(now)}
        changed == {k \in now_tagged : r.tbl[k] # before[k]}
    IN /\ DOMAIN r.tbl = DOMAIN before
       /\ Cardinality(changed) <= r.ret.marked
       /\ r.ret.marked <= Cardinality(now_tagged)
       /\ (\A k \in DOMAIN before : before[k].shortlisted_at # Some(now))
          => r.ret.marked = Cardinality(now_tagged)
       /\ 0 <= r.ret.marked
       /\ limit >= 0 => r.ret.marked <= limit
       /\ r.ret.total = Cardinality(carry)
       /\ replace => r.ret.total = r.ret.marked
       /\ ~replace => carried \subseteq carry /\ r.ret.total >= Cardinality(carried)

\* The limits of the shortlist calls the counts are stated for.
CountLimits == {-1, 0, 1, 2}

\* C12: in every reachable store, every run_shortlist call, whichever rows
\* its query returns, returns counts as described by ShortlistCounts; the
\* total a call has returned is the number of rows carrying its tag in the
\* store it left; and a call without replace that follows a call for the
\* same tag returns a total no smaller than that call's.
C12_ShortlistCounts ==
    /\ app = "job_api"
       => /\ \A rawtag \in StoreTags, f \in StoreJobFilters, replace \in BOOLEAN,
                limit \in CountLimits :
                \A K \in JobShortlistRows(jobs, rawtag, f, replace, limit, clock) :
                   LET r == job_run_shortlist(jobs, rawtag, f, replace, limit, clock, K)
                   IN /\ ShortlistCounts(jobs, r, replace, limit, clock)
                      /\ (last.op = "run_shortlist" /\ last.ret.tag = r.ret.tag /\ ~replace)
                         => r.ret.total >= last.ret.total
          /\ last.op = "run_shortlist"
             => last.ret.total
                = Cardinality({k \in DOMAIN jobs : jobs[k].shortlist_tag = Some(last.ret.tag)})
    /\ app = "load_api"
       => /\ \A rawtag \in StoreTags, f \in StoreLoadFilters, replace \in BOOLEAN,
                limit \in CountLimits :
                \A K \in LoadShortlistRows(loads, rawtag, f, replace, limit, clock) :
                   LET r == load_run_shortlist(loads, rawtag, f, replace, limit, clock, K)
                   IN /\ ShortlistCounts(loads, r, replace, limit, clock)
                      /\ (last.op = "run_shortlist" /\ last.ret.tag = r.ret.tag /\ ~replace)
                         => r.ret.total >= last.ret.total
          /\ last.op = "run_shortlist"
             => last.ret.total
                = Cardinality({k \in DOMAIN loads : loads[k].shortlist_tag = Some(last.ret.tag)})

\* C12 witness: a call without replace and with limit 1 has just returned
\* marked 1 and total 2 on a load store of two rows: one row carried the tag
\* from an earlier day, the other has been stamped now.
C12_Witness ==
    /\ last.op = "run_shortlist"
    /\ ~last.replace
    /\ last.limit = 1
    /\ last.ret.marked = 1
    /\ last.ret.total = 2
    /\ \E k1 \in DOMAIN loads, k2 \in DOMAIN loads :
          /\ loads[k1].shortlist_tag = Some(last.ret.tag)
          /\ loads[k1].shortlisted_at = Some(clock)
          /\ loads[k2].shortlist_tag = Some(last.ret.tag)
          /\ loads[k2].shortlisted_at # Some(clock)

\* The limits of the scoring calls the properties are stated for.
ScoreCallLimits == {-1, 0, 1, 2}

\* The rows whose match_score differs between two tables with the same keys.
Rescored(before, after) ==
    {k \in DOMAIN before : after[k].match_score # before[k].match_score}

\* C13: in every reachable store, score_tagged_loads with a non-empty tag T,
\* either only_unscored value and any limit, whichever rows its query
\* returns: the rows it selects carry T (and are unscored under
\* only_unscored) and number at most the limit when there is one; every
\* selected row differs from before in match_score at most, which is then
\* set, so its state is as it was; every other row is as it was; and the
\* returned `scored` is at least the number of rows whose match_score has
\* changed, at most the number of rows carrying T, and under only_unscored
\* exactly the number of rows that went from no score to a score.
C13_ScorerScope ==
    \A tag \in ScoreTags \ {<<>>}, only_unscored \in BOOLEAN, limit \in ScoreCallLimits :
       \A K \in ScoreRows(loads, tag, only_unscored, limit) :
        \A up \in [K -> BOOLEAN] :
          LET r == score_tagged_loads(loads, tag, K, up)
              carrying == {k \in DOMAIN loads : loads[k].shortlist_tag = Some(tag)}
          IN /\ DOMAIN r.tbl = DOMAIN loads
             /\ K \subseteq carrying
             /\ limit >= 0 => Cardinality(K) <= limit
             /\ \A k \in DOMAIN loads \ K : r.tbl[k] = loads[k]
             /\ \A k \in K :
                   /\ SetAside(r.tbl[k], {"match_score"}) = SetAside(loads[k], {"match_score"})
                   /\ r.tbl[k].state = loads[k].state
                   /\ r.tbl[k].match_score.some
             /\ Rescored(loads, r.tbl) \subseteq carrying
             /\ Cardinality(Rescored(loads, r.tbl)) <= r.ret.scored
             /\ r.ret.scored <= Cardinality(carrying)
             /\ limit >= 0 => r.ret.scored <= limit
             /\ only_unscored
                => r.ret.scored
                   = Cardinality({k \in DOMAIN loads :
                                    ~loads[k].match_score.some /\ r.tbl[k].match_score.some})

\* C13 witness: a scoring call has just scored one of two rows carrying the
\* tag "A": that row has a score, the other has none, and both are READY.
C13_Witness ==
    /\ last.op = "score_tagged_loads"
    /\ ~last.error
    /\ last.ret = [tag |-> <<"A">>, scored |-> 1]
    /\ \E k1 \in DOMAIN loads, k2 \in DOMAIN loads :
          /\ loads[k1].shortlist_tag = Some(<<"A">>)
          /\ loads[k2].shortlist_tag = Some(<<"A">>)
          /\ loads[k1].match_score.some
          /\ ~loads[k2].match_score.some
          /\ loads[k1].state = STATE_READY
          /\ loads[k2].state = STATE_READY

\* C14: in every reachable store, score_tagged_loads with only_unscored=True,
\* any limit, whichever rows its query returns, sets a score only on rows
\* that had none and leaves every score a row already had as it was, also
\* where that score is no longer the score of the row's present Rate and D2P.
C14_OnlyUnscored ==
    \A tag \in ScoreTags \ {<<>>}, limit \in ScoreCallLimits :
       \A K \in ScoreRows(loads, tag, TRUE, limit) :
        \A up \in [K -> BOOLEAN] :
          LET r == score_tagged_loads(loads, tag, K, up)
          IN /\ \A k \in K : ~loads[k].match_score.some
             /\ \A k \in DOMAIN loads :
                   loads[k].match_score.some
                   => r.tbl[k].match_score = loads[k].match_score
             /\ \A k \in Rescored(loads, r.tbl) : ~loads[k].match_score.some

\* C14 witness: an only_unscored call has just scored one row, while another
\* row carrying the same tag keeps a score that is not the score of its
\* present Rate and D2P: it was scored before a re-ingest changed its D2P.
C14_Witness ==
    /\ last.op = "score_tagged_loads"
    /\ ~last.error
    /\ last.only_unscored
    /\ last.ret = [tag |-> <<"A">>, scored |-> 1]
    /\ \E k1 \in DOMAIN loads, k2 \in DOMAIN loads :
          /\ k1 # k2
          /\ loads[k1].shortlist_tag = Some(<<"A">>)
          /\ loads[k2].shortlist_tag = Some(<<"A">>)
          /\ loads[k1].match_score.some
          /\ \A up \in BOOLEAN : loads[k1].match_score # Some(math_match_score(loads[k1], up))
          /\ \E up \in BOOLEAN : loads[k2].match_score = Some(math_match_score(loads[k2], up))

\* C15: for every Rate and D2P input, math_match_score returns a whole number
\* of tenths between 0 and 100, that is a multiple of 0.1 between 0.0 and 10.0.
C15_ScoreBounds ==
    probe.out.some => probe.out.val \in 0..100

\* C15 witness: the score of a rate above the range with a negative D2P has
\* been computed: it is the upper bound 10.0.
C15_Witness ==
    /\ last.op = "math_match_score"
    /\ probe.rate.value = Some(4000000)
    /\ probe.d2p.value = Some(-3000)
    /\ probe.out = Some(100)

\* The reference score of a rate r and a D2P d (thousandths, NULL for none),
\* before rounding, as the number RefNum / RefDen of tenths:
\*   100 * (0.7 * clamp(r/3000, 0, 1) + 0.3 * d2p_norm) - 10 * penalty,
\* clamped to 0..100, with d2p_norm = clamp(1 - d/40, 0, 1) and penalty 0 for
\* a present d, d2p_norm = 0 and penalty 2 for none.
RefDen == 1200000

RefNum(r, d) ==
    LET r1 == IF ~r.some \/ r.val < 0 THEN 0 ELSE IF r.val > 3000000 THEN 3000000 ELSE r.val
        d1 == IF ~d.some \/ d.val > 40000 THEN 0
              ELSE IF d.val < 0 THEN 40000 ELSE 40000 - d.val
        raw == 28 * r1 + 900 * d1 - (IF d.some THEN 0 ELSE 20 * RefDen)
    IN IF raw < 0 THEN 0 ELSE IF raw > 100 * RefDen THEN 100 * RefDen ELSE raw

\* C16: math_match_score returns the reference score rounded to one decimal:
\* a number of tenths that is nearest to the reference score (where the
\* reference lies halfway between two tenths, either of them); and the rate
\* "$1,500" with D2P missing scores 1.5.
C16_ScoreReference ==
    probe.out.some
    => LET ref == RefNum(probe.rate.value, probe.d2p.value)
           diff == probe.out.val * RefDen - ref
       IN /\ 2 * diff <= RefDen
          /\ 2 * diff >= -RefDen
          /\ (probe.rate.text = Some(<<"$", "1", ",", "5", "0", "0">>) /\ probe.d2p.text = NULL)
             => probe.out = Some(15)

\* C16 witness: the score of rate "$1,500" with D2P missing has been computed
\* and is 1.5.
C16_Witness ==
    /\ last.op = "math_match_score"
    /\ probe.rate.text = Some(<<"$", "1", ",", "5", "0", "0">>)
    /\ probe.d2p.text = NULL
    /\ probe.out = Some(15)

\* The event the agent's step has just recorded, "" when the step recorded none.
AgentEvent ==
    IF agent.pc = "loop" /\ agent'.pc \in {"loop", "crashed"}
       /\ Len(agent'.events) = Len(agent.events) + 1
    THEN agent'.events[Len(agent'.events)]
    ELSE ""

\* The job the agent's loop is at.
AgentJob == agent.queue[agent.i].job_key

\* C17: in the agent scoring loop, a reply of the scoring collaborator with
\* no extractable number skips that job (no score written, no default score)
\* and the loop continues with the remaining jobs.
C17_MalformedReplySkipped ==
    [][AgentEvent = "malformed" =>
          /\ agent'.pc = "loop"
          /\ agent'.i = agent.i + 1
          /\ agent'.skipped = agent.skipped + 1
          /\ jobs'[AgentJob].match_score = jobs[AgentJob].match_score]_vars

\* C18: a network/HTTP failure of the description fetcher or of the scoring
\* collaborator for one job increments skipped, writes no score for that job
\* and the loop proceeds to the next job; when the loop completes,
\* scored + skipped is the number of jobs the query returned and described is
\* at most that number.
C18_SkipAndContinue ==
    [][/\ AgentEvent \in {"fetch_failed", "score_failed"} =>
              /\ agent'.pc = "loop"
              /\ agent'.i = agent.i + 1
              /\ agent'.skipped = agent.skipped + 1
              /\ agent'.scored = agent.scored
              /\ jobs'[AgentJob].match_score = jobs[AgentJob].match_score
       /\ agent'.pc = "done" =>
              /\ agent'.scored + agent'.skipped = Len(agent'.queue)
              /\ agent'.described <= Len(agent'.queue)]_vars

\* A run that completed after a failed description fetch, a failed scoring
\* call and a scored job.
C18_Witness ==
    /\ agent.pc = "done"
    /\ \A e \in {"fetch_failed", "score_failed", "scored"} :
          \E i \in 1..Len(agent.events) : agent.events[i] = e
    /\ agent.scored + agent.skipped = Len(agent.queue)

\* C19: if fetch_page raises on a page of a job ingest, run_scrape passes the
\* error to the caller, writes no runs row and changes no record beyond the
\* records upserted from the pages fetched before.
C19_FailedFetchFailsIngest ==
    [][last'.op = "run_scrape_failed" =>
          /\ last'.raised
          /\ runs' = runs
          /\ \E n \in 0..Len(last'.fetched) :
                jobs' = UpsertJobs(jobs, SubSeq(last'.fetched, 1, n), clock).tbl]_vars

\* The second page of an ingest failed after the first returned a record,
\* on a store that holds a record of an earlier ingest.
C19_Witness ==
    /\ last.op = "run_scrape_failed"
    /\ last.page = 2
    /\ Len(last.fetched) = 1
    /\ Len(runs) = 1
    /\ Cardinality(DOMAIN jobs) = 1

\* C20: score_tagged_loads with an empty tag, and update_description and
\* update_match_score for a key that is not in the store, each report an
\* error to the caller and change no record row.
C20_ValidationLeavesState ==
    [][/\ \A key \in JobKeys \ DOMAIN jobs :
             /\ \A text \in DescribeTexts, source \in DescribeSources :
                   update_description(jobs, key, text, source) =
                       [tbl |-> jobs, found |-> FALSE]
             /\ \A score \in JobScores :
                   update_match_score(jobs, key, score) = [tbl |-> jobs, found |-> FALSE]
       /\ last'.op \in {"update_description", "update_match_score"} /\ ~last'.found =>
             jobs' = jobs /\ loads' = loads
       /\ last'.op = "score_tagged_loads" /\ last'.error =>
             jobs' = jobs /\ loads' = loads]_vars

\* update_match_score has reported a key as not found on a store that holds
\* a record under another key.
C20_Witness ==
    /\ last.op = "update_match_score"
    /\ ~last.found
    /\ DOMAIN jobs # {}
    /\ \A k \in DOMAIN jobs : ~jobs[k].match_score.some

\* C21: for every input value of any JSON type, normalize_pickup,
\* normalize_date_filter, to_int, parse_rate and parse_d2p return a value and
\* let no exception escape.
C21_NormalizersNeverRaise ==
    "out" \in DOMAIN probe => ~probe.out.raised

\* C22: the set of stored load keys loses a key only in run_scrape with
\* overwrite; after a completed overwrite ingest the table holds exactly the
\* keys derived from the batch, total_in_db is their number, and every row
\* has first_seen_at = last_seen_at = the run's now, no tag and no score.
C22_RowsRemovedOnlyByOverwrite ==
    [][/\ (\E k \in DOMAIN loads : k \notin DOMAIN loads')
          => last'.op = "run_scrape" /\ last'.overwrite
       /\ (last'.op = "run_scrape" /\ last'.overwrite)
          => /\ \A batch \in OverwriteBatches :
                   (/\ Len(batch) = Len(last'.outcomes)
                    /\ load_run_scrape(loads, batch, TRUE, clock').tbl = loads')
                   => DOMAIN loads' = {stable_load_key(batch[i]) : i \in 1..Len(batch)}
             /\ last'.ret.total_in_db = Cardinality(DOMAIN loads')
             /\ Cardinality(DOMAIN loads') \in 1..Len(last'.outcomes)
             /\ \A k \in DOMAIN loads' :
                   /\ loads'[k].first_seen_at = clock'
                   /\ loads'[k].last_seen_at = clock'
                   /\ loads'[k].shortlist_tag = NULL
                   /\ loads'[k].match_score = NULL]_vars

\* A second ingest, with overwrite, of a file holding one key twice has
\* completed at a later time than the first: one row is stored.
C22_Witness ==
    /\ last.op = "run_scrape"
    /\ last.overwrite
    /\ last.outcomes = <<"inserted", "updated">>
    /\ last.ret.total_in_db = 1
    /\ Len(runs) = 2
    /\ clock > 1
    /\ \A k \in DOMAIN loads : loads[k].first_seen_at = clock

\* C23: two overlapping ingests on separate connections that both upsert a
\* record with the same key, stored by neither when they began, end as some
\* sequential order of the two would: neither fails, one reports "inserted"
\* and the other "updated", and one row exists for the key.
C23_OverlapIsolation ==
    (/\ \A c \in Conns : conns[c].pc \in {"done", "failed"} /\ conns[c].fresh
     /\ stable_load_key(conns[1].load) = stable_load_key(conns[2].load))
    => /\ \A c \in Conns : conns[c].pc = "done"
       /\ {conns[c].outcome : c \in Conns} = {"inserted", "updated"}
       /\ stable_load_key(conns[1].load) \in DOMAIN loads

\* A payload value that is a text with a character other than a blank.
NonBlank(x) == x.some /\ \E i \in 1..Len(x.val) : x.val[i] # " "

\* first_seen_at = last_seen_at = now, no score and no tag.
FreshBookkeeping(row, now) ==
    /\ row.first_seen_at = now
    /\ row.last_seen_at = now
    /\ row.match_score = NULL
    /\ row.shortlist_tag = NULL

\* C24: a job inserted for the first time gets DESC_READY if its payload
\* carries a non-blank description and NEW otherwise, then with NULL
\* description_text and description_source; a load is inserted READY; in both
\* first_seen_at = last_seen_at = now and match_score and shortlist_tag are
\* NULL.
C24_InitialState ==
    [][last'.op = "run_scrape" =>
         /\ app = "job_api" =>
               \A job \in OneJobInputs :
                  (/\ stable_job_key(job) \notin DOMAIN jobs
                   /\ upsert_job(jobs, job, clock').tbl = jobs')
                  => LET row == jobs'[stable_job_key(job)]
                     IN /\ FreshBookkeeping(row, clock')
                        /\ NonBlank(job.description) => row.state = STATE_DESC_READY
                        /\ ~NonBlank(job.description) =>
                              /\ row.state = STATE_NEW
                              /\ row.description_text = NULL
                              /\ row.description_source = NULL
         /\ app = "load_api" =>
               \A load \in OneLoadInputs :
                  (/\ last'.overwrite \/ stable_load_key(load) \notin DOMAIN loads
                   /\ last'.outcomes = <<"inserted">>
                   /\ stable_load_key(load) \in DOMAIN loads')
                  => LET row == loads'[stable_load_key(load)]
                     IN /\ FreshBookkeeping(row, clock')
                        /\ row.state = STATE_READY]_vars

\* A job whose payload carries the description " d" has just been inserted
\* at a time after the start: it is DESC_READY and holds the text "d".
C24_Witness ==
    /\ app = "job_api"
    /\ last.op = "run_scrape"
    /\ last.outcomes = <<"inserted">>
    /\ clock > 1
    /\ \E k \in DOMAIN jobs :
          /\ jobs[k].state = STATE_DESC_READY
          /\ jobs[k].description_text = Some(<<"d">>)
          /\ jobs[k].first_seen_at = clock

\* C25: whenever a job row in state NEW that holds no non-empty description
\* receives a non-empty description through upsert_job or update_description,
\* the same operation sets its state to DESC_READY; an operation that
\* supplies no description leaves a NEW row in NEW.
C25_PromotionOnFirstDescription ==
    [][last'.op \in {"run_scrape", "update_description"} =>
         \A k \in DOMAIN jobs \cap DOMAIN jobs' :
            (jobs[k].state = STATE_NEW /\ ~Truthy(jobs[k].description_text))
            => /\ Truthy(jobs'[k].description_text) => jobs'[k].state = STATE_DESC_READY
               /\ ~Truthy(jobs'[k].description_text) => jobs'[k].state = STATE_NEW]_vars

\* The state an existing row with state st of the table has after upsert_load
\* of a payload with its key at time now.
StateAfterReingest(tbl, k, st, load, now) ==
    upsert_load(Put(tbl, k, [tbl[k] EXCEPT !.state = st]), load, now).tbl[k].state

\* C26 as stated: for a load row whose existing state is NEW, READY or
\* SCORED, every upsert_load of a record with that key sets the row's state
\* to READY.
C26_LoadStateResetOriginal ==
    [][(last'.op = "run_scrape" /\ last'.outcomes = <<"updated">>) =>
          \A k \in DOMAIN loads \cap DOMAIN loads' :
             loads[k].state \in {STATE_NEW, STATE_READY, STATE_SCORED}
             => loads'[k].state = STATE_READY]_vars

\* C26 as amended: for a load row whose existing state is NEW or READY, every
\* upsert_load of a record with that key sets the row's state to READY; a row
\* in state SCORED, APPLIED or IGNORED keeps its state.
C26_LoadStateReset ==
    [][(last'.op = "run_scrape" /\ last'.outcomes = <<"updated">>) =>
          \A k \in DOMAIN loads \cap DOMAIN loads' :
             /\ loads[k].state \in {STATE_NEW, STATE_READY} => loads'[k].state = STATE_READY
             /\ loads[k].state \in {STATE_SCORED, STATE_APPLIED, STATE_IGNORED}
                => loads'[k].state = loads[k].state
             /\ \A load \in OneLoadInputs, st \in AllStates :
                   stable_load_key(load) = k
                   => StateAfterReingest(loads, k, st, load, clock')
                      = IF st \in {STATE_SCORED, STATE_APPLIED, STATE_IGNORED}
                        THEN st ELSE STATE_READY]_vars

\* A load row marked SCORED has just been ingested again, at a later time
\* than its first ingest, and is still SCORED.
C26_Witness ==
    /\ app = "load_api"
    /\ last.op = "run_scrape"
    /\ last.outcomes = <<"updated">>
    /\ \E k \in DOMAIN loads :
          /\ loads[k].state = STATE_SCORED
          /\ loads[k].last_seen_at = clock
          /\ loads[k].first_seen_at < clock

\* C27: in the job variant, writing a score for a record with
\* update_match_score sets match_score and promotes the record's state to
\* SCORED (a record in APPLIED or IGNORED keeps its state).
C27_ScoringPromotesState ==
    [][(last'.op = "update_match_score" /\ last'.found) =>
          \A k \in DOMAIN jobs' :
             jobs'[k].match_score # jobs[k].match_score \/ jobs[k].match_score.some
             => /\ jobs'[k].match_score.some
                /\ jobs[k].state \notin {STATE_APPLIED, STATE_IGNORED}
                   => jobs'[k].state = STATE_SCORED]_vars

\* The candidate order as the shortlist is documented: READY and DESC_READY
\* first, then NEW, then every other state; within one class the row first
\* seen later comes first.
RankClass(state) ==
    IF state \in {STATE_READY, STATE_DESC_READY} THEN 0
    ELSE IF state = STATE_NEW THEN 1 ELSE 2

RanksBefore(a, b) ==
    \/ RankClass(a.state) < RankClass(b.state)
    \/ RankClass(a.state) = RankClass(b.state) /\ a.first_seen_at > b.first_seen_at

\* The store of the running program.
Store == IF app = "job_api" THEN jobs ELSE loads

\* The rows matching the predicate of a shortlist call with the empty filter.
RankCandidates ==
    {k \in DOMAIN Store :
        IF app = "job_api" THEN JobShortlistWhere(jobs[k], NoJobFilter, clock)
        ELSE LoadShortlistWhere(loads[k], NoLoadFilter, Today(clock))}

\* C28: when more rows match the predicate than `limit`, the rows stamped by
\* run_shortlist are a top-`limit` prefix of the candidates ordered by state
\* priority and then by first_seen_at descending: no matching row the call
\* left unstamped ranks strictly before a stamped one, and every stamped row
\* gets the same tag and the same shortlisted_at.
C28_ShortlistOrder ==
    [][(last'.op = "run_shortlist" /\ last'.limit >= 0
          /\ Cardinality(RankCandidates) > last'.limit) =>
          \E K \in SUBSET RankCandidates :
             /\ Cardinality(K) = last'.limit
             /\ \A a \in K, b \in RankCandidates \ K : ~RanksBefore(Store[b], Store[a])
             /\ \A k \in K :
                   /\ Store'[k].shortlist_tag = Some(last'.ret.tag)
                   /\ Store'[k].shortlisted_at = Some(clock)
             /\ \A k \in DOMAIN Store \ K :
                   LET cleared == last'.replace /\ Store[k].shortlist_tag = Some(last'.ret.tag)
                   IN /\ Store'[k].shortlist_tag = IF cleared THEN NULL ELSE Store[k].shortlist_tag
                      /\ Store'[k].shortlisted_at = IF cleared THEN NULL ELSE Store[k].shortlisted_at]_vars

\* A call with limit 1 on two candidates of different rank has stamped the
\* first one alone.
C28_Witness ==
    /\ last.op = "run_shortlist" /\ last.limit = 1 /\ last.ret.marked = 1
    /\ Cardinality(RankCandidates) = 2
    /\ \E a \in RankCandidates, b \in RankCandidates :
          /\ RanksBefore(Store[a], Store[b])
          /\ Store[a].shortlist_tag = Some(last.ret.tag)
          /\ Store[a].shortlisted_at = Some(clock)
          /\ Store[b].shortlisted_at # Some(clock)

\* A row with its two shortlist columns blanked.
WithoutShortlist(row) == [row EXCEPT !.shortlist_tag = NULL, !.shortlisted_at = NULL]

\* C29: run_shortlist changes only the columns shortlist_tag and
\* shortlisted_at: the store keeps its rows, and every row keeps its state,
\* match_score, first_seen_at, last_seen_at, description fields and domain
\* fields.
C29_ShortlistFrame ==
    [][last'.op = "run_shortlist" =>
          /\ DOMAIN jobs' = DOMAIN jobs
          /\ DOMAIN loads' = DOMAIN loads
          /\ Cardinality(DOMAIN Store') = Cardinality(DOMAIN Store)
          /\ \A k \in DOMAIN jobs : WithoutShortlist(jobs'[k]) = WithoutShortlist(jobs[k])
          /\ \A k \in DOMAIN loads : WithoutShortlist(loads'[k]) = WithoutShortlist(loads[k])
          /\ runs' = runs]_vars

\* A call has stamped a row that was last seen on an earlier day, and has left
\* another row without a tag.
C29_Witness ==
    /\ last.op = "run_shortlist" /\ last.ret.marked >= 1
    /\ \E k \in DOMAIN Store :
          /\ Store[k].shortlist_tag = Some(last.ret.tag)
          /\ Store[k].shortlisted_at = Some(clock)
          /\ Store[k].last_seen_at < clock
    /\ \E k \in DOMAIN Store :
          /\ Store[k].shortlist_tag = NULL
          /\ Store[k].shortlisted_at = NULL

\* Number of records on pages 1..n of the feed.
RECURSIVE PageSizes(_, _)
PageSizes(feed, n) == IF n = 0 THEN 0 ELSE PageSizes(feed, n - 1) + Len(PageOf(feed, n))

\* C30: the job ingest fetch loop requests pages 1, 2, ... in order, makes at
\* most max_pages fetch_page calls, stops immediately after the first page
\* that returns zero records, and then proceeds to upsert; pages_fetched is the
\* number of fetch_page calls made, the empty terminating page included, and
\* total_returned the sum of the sizes of the fetched pages.
C30_PaginationTerminates ==
    ("calls" \in DOMAIN probe /\ last.op = "run_scrape") =>
        LET n == Len(probe.calls)
        IN /\ \A i \in 1..n : probe.calls[i] = i
           /\ n <= probe.max_pages
           /\ \A i \in 1..(n - 1) : PageOf(probe.feed, i) # <<>>
           /\ n < probe.max_pages => n >= 1 /\ PageOf(probe.feed, n) = <<>>
           /\ last.ret.pages_fetched = n
           /\ last.ret.total_returned = PageSizes(probe.feed, n)
           /\ Len(last.outcomes) = PageSizes(probe.feed, n)
           /\ runs # <<>>
           /\ runs[Len(runs)].pages_fetched = n

\* An ingest allowed three pages stopped on the empty second page, which it
\* counted, although the third page held records.
C30_Witness ==
    /\ "calls" \in DOMAIN probe /\ last.op = "run_scrape"
    /\ probe.max_pages = 3
    /\ probe.calls = <<1, 2>>
    /\ Len(probe.feed) = 3 /\ probe.feed[2] = <<>> /\ probe.feed[3] # <<>>
    /\ Len(probe.feed[1]) = 2
    /\ last.ret.pages_fetched = 2 /\ last.ret.total_returned = 2

\* runs as it was is the beginning of runs afterwards.
RunsKept == Len(runs') >= Len(runs) /\ SubSeq(runs', 1, Len(runs)) = runs

\* C31: every run_scrape call that completes appends exactly one row to runs,
\* holding the pages fetched and the records returned of that run; its counters
\* satisfy inserted + updated = total_returned; no operation, overwrite ingest
\* included, modifies or removes a row of runs.
C31_AuditRowPerIngest ==
    [][/\ RunsKept
       /\ last'.op = "run_scrape" =>
             /\ runs' = Append(runs, [pages_fetched |-> last'.ret.pages_fetched,
                                      result_count |-> last'.ret.total_returned])
             /\ last'.ret.inserted + last'.ret.updated = last'.ret.total_returned
             /\ Len(last'.outcomes) = last'.ret.total_returned
       /\ last'.op # "run_scrape" => runs' = runs]_vars

\* An overwrite ingest of one key given twice has counted it as inserted and
\* then as updated, and has added the third row to an audit log of two.
C31_Witness ==
    /\ last.op = "run_scrape" /\ last.overwrite
    /\ last.outcomes = <<"inserted", "updated">>
    /\ last.ret.inserted = 1 /\ last.ret.updated = 1 /\ last.ret.total_returned = 2
    /\ Len(runs) = 2
    /\ runs[2] = [pages_fetched |-> 1, result_count |-> 2]

\* C32: whichever core operation is the first one invoked on a store location
\* that does not yet contain the records table, it creates the table and
\* completes normally rather than failing on a missing table.
C32_LazyTableCreation ==
    [][(~schema /\ last'.op # "tick") =>
          (schema' /\ "raised" \notin DOMAIN last')]_vars

\* C33: for every month/day pair that is a valid calendar date in the current
\* UTC year Y, 29 February included when Y is a leap year,
\* normalize_pickup("MM/DD") returns "Y-MM-DD".
C33_BareMonthDayCurrentYear ==
    ("out" \in DOMAIN probe /\ last.op = "normalize_pickup"
        /\ ValidDate(probe.today.y, probe.m, probe.d)) =>
        probe.out = IsoFormat([y |-> probe.today.y, m |-> probe.m, d |-> probe.d])

\* C34: in every query_loads result, every scored row precedes every unscored
\* row, scored rows come in non-increasing score order, rows with equal score
\* or both unscored are ordered by state priority (READY, NEW, others) and
\* then first_seen_at descending; at most `limit` rows are returned
\* (limit >= 0), every returned row satisfies all supplied filters, and the
\* store is left unchanged.
C34_QueryOrdering ==
    [][last'.op = "query_loads" =>
          LET res == last'.results
              Row(i) == loads[res[i]]
          IN /\ loads' = loads /\ runs' = runs /\ jobs' = jobs
             /\ \A i \in 1..Len(res) : res[i] \in DOMAIN loads
             /\ \A i \in 1..Len(res), j \in 1..Len(res) :
                   i < j =>
                     /\ res[i] # res[j]
                     /\ Row(j).match_score.some => Row(i).match_score.some
                     /\ Row(j).match_score.some =>
                           Row(i).match_score.val >= Row(j).match_score.val
                     /\ Row(i).match_score = Row(j).match_score =>
                           ~RanksBefore(Row(j), Row(i))
             /\ last'.limit >= 0 => Len(res) <= last'.limit
             /\ \A i \in 1..Len(res) :
                   LoadQueryWhere(Row(i), last'.q, Today(clock))]_vars

\* A query without filter has returned a scored row before an unscored one
\* that was first seen later.
C34_Witness ==
    /\ last.op = "query_loads" /\ last.q = NoLoadQuery /\ Len(last.results) = 2
    /\ loads[last.results[1]].match_score.some
    /\ ~loads[last.results[2]].match_score.some
    /\ loads[last.results[2]].first_seen_at > loads[last.results[1]].first_seen_at

\* The position of the first digit of a text that holds one.
FirstDigitAt(text) ==
    CHOOSE i \in 1..Len(text) :
       IsDigit(text[i]) /\ \A j \in 1..(i - 1) : ~IsDigit(text[j])

\* The first number of the text is written with a minus sign.
AnswerNegative(text) ==
    FirstDigitAt(text) > 1 /\ text[FirstDigitAt(text) - 1] = "-"

\* C35: for every free-text response, parse_score either returns a number in
\* [0,10], the numeric answer contained in the text with an out-of-range
\* value clamped to the nearest bound (a negative answer to 0, an answer above
\* 10 to 10), or raises because the text holds no number; it never returns a
\* value outside [0,10].  Scores are in tenths.
C35_ParseScoreRange ==
    ("out" \in DOMAIN probe /\ last.op = "parse_score") =>
        LET hasNumber == \E i \in 1..Len(probe.text) : IsDigit(probe.text[i])
        IN /\ probe.out.some <=> hasNumber
           /\ probe.out.some =>
                 /\ probe.out.val \in 0..100
                 /\ AnswerNegative(probe.text) => probe.out.val = 0
                 /\ ~AnswerNegative(probe.text) =>
                       LET v == ParseFloat(FirstNumber(probe.text).val).val \div 100
                       IN probe.out.val = IF v > 100 THEN 100 ELSE v

\* C36: in every reachable store state, a job row in state NEW has no
\* non-empty description_text, after any sequence of upsert_job and
\* update_description calls, update_description with an empty text included.
C36_NewHasNoDescription ==
    \A k \in DOMAIN jobs :
       jobs[k].state = STATE_NEW => ~Truthy(jobs[k].description_text)

\* C37: an overwrite ingest is all-or-nothing: if run_scrape(overwrite=True)
\* raises after it has begun processing the batch, the rows that were in the
\* loads table before the call are still there afterwards.
C37_OverwriteAllOrNothing ==
    [][(last'.op = "run_scrape_failed" /\ last'.overwrite) =>
          \A k \in DOMAIN loads : k \in DOMAIN loads' /\ loads'[k] = loads[k]]_vars

\* The tags the calls of SpecRank stamp.
RankTags == {NormTag(t) : t \in StoreTags}

\* C38: a row carries at most one shortlist tag, and run_shortlist for a tag
\* re-stamps every selected row even if it currently carries a different tag:
\* a call without limit leaves every candidate with the tag of the call, the
\* rows marked all carry it, no other tag gains a row by the call, and the
\* sets of rows carrying distinct tags are disjoint.
C38_RestampAcrossTags ==
    [][last'.op = "run_shortlist" =>
          LET tag == last'.ret.tag
              stamped == {k \in DOMAIN Store' :
                             /\ Store'[k].shortlist_tag = Some(tag)
                             /\ Store'[k].shortlisted_at = Some(clock)}
          IN /\ last'.limit < 0 => RankCandidates \subseteq stamped
             /\ last'.ret.marked = LimitCount(last'.limit, Cardinality(RankCandidates))
             /\ Cardinality(stamped) >= last'.ret.marked
             /\ \A other \in RankTags \ {tag} :
                   Tagged(Store', other) \subseteq Tagged(Store, other)
             /\ \A t1 \in RankTags, t2 \in RankTags :
                   t1 # t2 => Tagged(Store', t1) \cap Tagged(Store', t2) = {}]_vars

\* A call for one tag has stamped the first-ranked row, which was in the store
\* when the other row, still carrying the other tag, was stamped by a call
\* that selected it.
C38_Witness ==
    /\ last.op = "run_shortlist" /\ last.ret.marked = 1 /\ ~last.replace
    /\ \E a \in DOMAIN Store, b \in DOMAIN Store :
          /\ RanksBefore(Store[a], Store[b])
          /\ Store[a].shortlist_tag = Some(last.ret.tag)
          /\ Store[a].shortlisted_at = Some(clock)
          /\ Store[b].shortlist_tag.some
          /\ Store[b].shortlist_tag # Some(last.ret.tag)
          /\ Store[b].shortlisted_at.val < clock
          /\ Store[a].first_seen_at <= Store[b].shortlisted_at.val
          /\ Store[a].state \notin {STATE_APPLIED, STATE_IGNORED}

\* The rows tagged by the loop's tag that have no score.
LoopUnscored(tbl) ==
    {k \in DOMAIN tbl : tbl[k].shortlist_tag = Some(probe.tag) /\ ~tbl[k].match_score.some}

\* C39: with no other operation interleaved, repeated calls
\* score_tagged_loads(tag=T, only_unscored=True, limit=L), L >= 1, eventually
\* reach a state in which no row tagged T has a NULL match_score; each call
\* scores min(L, number of unscored rows tagged T) rows, and once none is
\* left every further call returns scored = 0 and changes nothing.
C39_ScoringProgress ==
    /\ (probe # NULL) ~> (probe # NULL /\ LoopUnscored(loads) = {})
    /\ [][(probe # NULL /\ last'.op = "score_tagged_loads") =>
            /\ last'.ret.scored =
                  LimitCount(probe.limit, Cardinality(LoopUnscored(loads)))
            /\ Cardinality(LoopUnscored(loads')) =
                  Cardinality(LoopUnscored(loads)) - last'.ret.scored
            /\ LoopUnscored(loads) = {} => loads' = loads /\ last'.ret.scored = 0]_vars

\* The loop with limit 1 has scored two tagged rows and its last call found
\* none left.
C39_Witness ==
    /\ probe # NULL /\ probe.limit = 1
    /\ last.op = "score_tagged_loads" /\ last.ret.scored = 0
    /\ Cardinality(Tagged(loads, probe.tag)) = 2
    /\ LoopUnscored(loads) = {}

\* C40: in the load UI at most one run of runFiltersAndLoad is in flight, and
\* isRunning is true exactly while one is; a click or a timer tick that
\* arrives while isRunning changes nothing, one that arrives otherwise starts
\* a run; the end of a run, on success and on failure, leaves isRunning
\* false; at most one auto-refresh interval timer is active, the one
\* refreshTimer holds.
C40_SingleRunInFlight ==
    /\ [](/\ Len(ui.running) <= 1
          /\ ui.isRunning <=> Len(ui.running) = 1
          /\ Cardinality(Intervals(ui, "refresh")) <= 1
          /\ \A t \in Intervals(ui, "refresh") : t.id = ui.refreshTimer
          /\ ui.refreshTimer # 0 => Intervals(ui, "refresh") # {})
    /\ [][/\ (last'.op = "trigger" /\ ui.isRunning) => ui' = ui
          /\ (last'.op = "trigger" /\ ~ui.isRunning) => (ui'.isRunning /\ Len(ui'.running) = 1)
          /\ last'.op = "run_end" => (~ui'.isRunning /\ ui'.running = <<>>)]_vars

\* A tick of the auto-refresh timer arrived while a run started by a click
\* was waiting for /loads/score, and started nothing.
C40_Witness ==
    /\ last.op = "trigger" /\ last.by = "refreshTimer"
    /\ ui.isRunning /\ Len(ui.running) = 1
    /\ ui.running[1].pc = "score" /\ ~ui.running[1].shouldScrape

====
